---- MODULE Spec2Model ----
(***************************************************************************)
(* A model of the persona bot's retrieval-augmented speak pipeline:        *)
(*   - utils/concurrency.py  SpeakGuard (global semaphore + channel lock)  *)
(*   - commands/persona.py   persona_speak                                 *)
(*   - commands/mention_speak.py  on_message                               *)
(*   - utils/webhook.py      send_via_webhook                              *)
(*   - rag/embedder.py       SimpleIndex                                   *)
(* asyncio primitives follow the documented CPython (3.11+) semantics:     *)
(* Semaphore and Lock are FIFO; a release hands the resource to the first  *)
(* waiter, which continues when the event loop resumes it.                 *)
(***************************************************************************)
EXTENDS Integers, Sequences, FiniteSets, TLC

\* ------------------------------------------------------------- bounds
NumReqs == 3      \* concurrent requests considered
NumChans == 2     \* distinct channel ids considered
MaxConc == 2      \* cfg.speak_global_concurrency ranges over 0..MaxConc

Reqs == 1..NumReqs
Channels == 1..NumChans
NoChan == 0       \* channel_id is None
NoLock == 0       \* self._chan_lock is None / _chan_locks.get() misses
\* names of asyncio.Lock objects: the lock made for channel c is named c; a
\* lock made by request r for itself alone would be named NumChans + r
LockIds == 1..(NumChans + NumReqs)

Max(a, b) == IF a >= b THEN a ELSE b

FallbackDim == 384    \* LocalLLMClient.embed: rng.normal(size=384)
dim_hint == 768       \* Retriever.add_texts(dim_hint=768)
Threshold == 92       \* persona_speak: "if sim > 0.92", in hundredths

VARIABLES
    \* cfg (config.py), fixed at import
    speak_global_concurrency,
    speak_channel_exclusive,
    \* utils/concurrency.py module state
    semValue,        \* _speak_sem._value
    semWaiters,      \* _speak_sem._waiters (FIFO)
    chanLocks,       \* _chan_locks : channel id -> lock (NoLock when absent)
    lockHeld,        \* per lock: taken (or handed to a waiter not yet resumed)
    lockWaiters,     \* per lock: Lock._waiters (FIFO)
    \* per request (one task per handler invocation)
    pc,              \* position of the task
    kind,            \* "guard" (bare async with), "speak", "mention"
    chan,            \* channel id the request belongs to
    guardLock,       \* SpeakGuard._chan_lock
    \* delivery bookkeeping of the request flows
    parts,           \* number of message parts the response is sent as
    sent,            \* parts sent so far
    acqOrder,        \* requests in the order their guards were entered
    \* one /persona speak request in detail (persona.py 262-415), run by task 1
    speak_stream,    \* cfg.speak_stream
    persona,         \* what the handler finds: "unbound", "nodata", "ok"
    backendDim,      \* width of the vectors the embedding backend returns
    indexSrc,        \* who embedded the persisted index: "none", "backend", "fallback"
    sp,              \* position of the handler
    retrieved,       \* snippets put into the prompt
    msg,             \* the message object the streaming path edits
    acc,             \* complete_stream: fragments accumulated
    buf,             \* on_delta: fragments not yet flushed
    draft,           \* the current result text
    draft1,          \* the first generated result
    simVal,          \* similarity_to_nearest(draft1), in hundredths
    simSrc,          \* who embedded the text of the similarity check
    genCalls,        \* llm.complete / llm.complete_stream calls of the handler
    whOut,           \* outcome of the handler's send_via_webhook call
    followups,       \* what interaction.followup.send was given
    shown,           \* content of the response message in the channel
    \* one SimpleIndex (rag/embedder.py)
    backend,         \* self.backend after __init__: "numpy" or "faiss"
    dim,             \* self.dim
    vecs,            \* self.vecs: one entry (its width) per row
    faissNtotal,     \* self._faiss.ntotal
    texts,           \* self.texts
    lastAdd,         \* the latest add call and how it ended
    \* the files of one index path (INDEX_DIR/<user id>.idx) and one save
    fs,              \* file name -> content
    saveTodo,        \* SimpleIndex.save: files it has still to write
    saveOpen,        \* the first of them is open (truncated, not yet written)
    crashed,         \* the process died during the save
    prev,            \* what load returned when add_texts was called
    loaded,          \* what the latest SimpleIndex.load returned
    \* the flows that write one persona's index (persona.py 205-226, 477-482)
    disk,            \* entries of the persisted index
    mem,             \* per flow: entries of its Retriever's index
    wpc,             \* per flow: position
    batchNo,         \* _finalize: batches handed to add_texts so far
    completed,       \* entries of the add_texts calls that returned
    \* one call of LocalLLMClient.complete or .complete_stream
    llmFn,           \* the method called
    llmPrompt,       \* the kind of prompt it was given
    llmPc,           \* position inside the method
    llmAttempts,     \* backend requests made for the call, with their outcome
    llmAcc,          \* complete_stream: acc
    llmResult,       \* the text returned
    llmEscaped,      \* an exception left the method
    llmExpired,      \* complete_stream: time.time() > deadline
    llmLate,         \* fragments accepted while time.time() > deadline
    llmEnd,          \* what ended the reading of the stream
    llmDeltas,       \* complete_stream: the strings passed to on_delta, in call order
    \* the backend calls of the flows and the event loop they run on
    site,            \* per task: backend calls of its flow already made
    inFlight,        \* per task: its next backend call is in flight
    loopBlocked,     \* the task whose call keeps the event-loop thread, or 0
    \* one hierarchical run: persona_summarize or the style build of _finalize
    sumFlow,         \* "summarize" or "style"
    corpus,          \* used (summarize) or texts (style)
    hierarchical,    \* cfg.summarize_hierarchical / cfg.create_hierarchical
    chunk_count,     \* cfg.summarize_chunk_count / cfg.create_chunk_count
    create_style_msgs, \* cfg.create_style_msgs
    clock,           \* seconds of cfg.create_time_budget_seconds still left
    remaining,       \* _finalize: the local "remaining"
    spos,            \* position of the run
    coll,            \* the collection that is chunked (used / recent_for_style)
    chunk_lists,     \* chunk_lists
    calls,           \* llm.complete calls of the run
    partials,        \* chunk_summaries / guides
    mergeInput,      \* the partial results given to the merge prompt
    \* on_delta of one streaming speak request (persona.py 330-349)
    stream_edit_interval_ms,  \* cfg.stream_edit_interval_ms, in clock ticks
    stream_min_chunk_chars,   \* cfg.stream_min_chunk_chars
    now,             \* time.time(), in clock ticks
    last_edit,       \* the closure's last_edit
    dbuf,            \* the closure's buf
    deltas,          \* the on_delta calls made, with what each one did
    edited,          \* contents given to msg.edit calls that were scheduled
    dpos,            \* "stream" while complete_stream runs
    \* one Retriever (rag/retriever.py) over the files of one index path
    faissInstalled,  \* "import faiss" succeeds in this deployment
    rindex,          \* Retriever.index: None, or a SimpleIndex with its rows
    rfiles,          \* what is stored under the index path, per file
    added,           \* the texts of the add_texts calls that returned
    lastOp,          \* the latest Retriever call and how it ended
    \* the bot's stored state (utils/persistence.py) and its commands
    state_file,      \* the content of STATE_FILE: key -> user id (0: no such key)
    profiles,        \* the user ids that have a persona file
    lastCmd,         \* the latest command handled, and what it found
    \* the sessions of MentionSpeakCog and its on_message tasks
    session_max_turns, \* cfg.session_max_turns
    sessions,        \* self.sessions: channel -> deque of turns
    mpc,             \* per mention request: position of on_message
    mchan,           \* per mention request: message.channel.id
    window,          \* per mention request: the turns rendered into its prompt
    startOrder,      \* the mention requests in the order they started
    lastTurn,        \* the latest sess.append and the sessions before it
    \* where fetched message text goes
    history,         \* the user's messages in the channel, oldest first
    sinks,           \* the texts handed to extraction, prompts, profile and index
    flowCmd,         \* the latest command whose data flow was followed
    \* the files of each persona, its background finalize and its erasure
    pfile,           \* per user: the persona file exists
    ifiles,          \* per user: the index files that exist
    fin,             \* per user: position of the _finalize task of persona_create
    erased,          \* per user: erased, and no create or update invoked since
    \* the image captions of persona_summarize
    caption_cache,   \* caption_cache.json: url -> caption, <<>> for no entry
    to_caption,      \* the urls of the items to caption, in order
    loop_url,        \* the variable url of the scan loop, read by _cap
    capTask,         \* per item: the state of its _cap task
    captioned,       \* the urls whose image got a caption in this run
    summarize_caption_concurrency,  \* cfg.summarize_caption_concurrency
    cpos             \* position of persona_summarize

guardVars == <<semValue, semWaiters, chanLocks, lockHeld, lockWaiters>>
cfgVars == <<speak_global_concurrency, speak_channel_exclusive>>
reqVars == <<pc, kind, chan, guardLock>>
flowVars == <<parts, sent, acqOrder>>
speakVars == <<speak_stream, persona, backendDim, indexSrc, sp, retrieved, msg, acc, buf,
               draft, draft1, simVal, simSrc, genCalls, whOut, followups, shown>>
indexVars == <<backend, dim, vecs, faissNtotal, texts, lastAdd>>
persistVars == <<fs, saveTodo, saveOpen, crashed, prev, loaded>>
ingestVars == <<disk, mem, wpc, batchNo, completed>>
llmVars ==
    <<llmFn, llmPrompt, llmPc, llmAttempts, llmAcc, llmResult, llmEscaped, llmExpired, llmLate,
      llmEnd, llmDeltas>>
boxVars == <<llmExpired, llmLate, llmEnd>>
loopVars == <<site, inFlight, loopBlocked>>
sumVars ==
    <<sumFlow, corpus, hierarchical, chunk_count, create_style_msgs, clock, remaining, spos,
      coll, chunk_lists, calls, partials, mergeInput>>
deltaVars ==
    <<stream_edit_interval_ms, stream_min_chunk_chars, now, last_edit, dbuf, deltas, edited,
      dpos>>
retrVars == <<faissInstalled, rindex, rfiles, added, lastOp>>
stateVars == <<state_file, profiles, lastCmd>>
sessVars == <<session_max_turns, sessions, mpc, mchan, window, startOrder, lastTurn>>
piiVars == <<history, sinks, flowCmd>>
eraseVars == <<pfile, ifiles, fin, erased>>
capVars ==
    <<caption_cache, to_caption, loop_url, capTask, captioned, summarize_caption_concurrency,
      cpos>>
lateVars == <<sessVars, piiVars, eraseVars, capVars>>
otherVars ==
    <<persistVars, ingestVars, llmVars, loopVars, sumVars, deltaVars, retrVars, stateVars,
      lateVars>>
earlierVars ==
    <<cfgVars, guardVars, reqVars, flowVars, speakVars, indexVars, persistVars, ingestVars,
      llmVars, loopVars, sumVars, deltaVars, retrVars, stateVars>>
vars == <<cfgVars, guardVars, reqVars, flowVars, speakVars, indexVars, otherVars>>

\* ------------------------------------------------ utils/concurrency.py

\* _speak_sem = asyncio.Semaphore(max(1, cfg.speak_global_concurrency))
InitSemValue_plus1 == speak_global_concurrency + 1
InitSemValue == Max(1, speak_global_concurrency)

\* asyncio.Semaphore.locked(): no permit left, or somebody queued before us
SemLocked == semValue = 0 \/ semWaiters # <<>>

\* asyncio.Lock.acquire() must wait: locked, or somebody queued before us
LockBusy(l) == lockHeld[l] \/ lockWaiters[l] # <<>>

\* channel_lock(channel_id), called by request r: the lock registered for the
\* channel, created (and registered) on first use
channel_lock_fresh(r, c) == NumChans + r
channel_lock(r, c) == IF chanLocks[c] # NoLock THEN chanLocks[c] ELSE c

\* SpeakGuard.__init__: self._chan_lock
GuardLockFor(r, c) ==
    IF speak_channel_exclusive /\ c # NoChan THEN channel_lock(r, c) ELSE NoLock

\* __aexit__: "self._chan_lock is not None and self._chan_lock.locked()"
AExitReleasesLock_inverted(r) == guardLock[r] # NoLock /\ ~lockHeld[guardLock[r]]
AExitReleasesLock(r) == guardLock[r] # NoLock /\ lockHeld[guardLock[r]]

Waiting == {"semWait", "semGranted", "lockWait", "lockGranted"}
\* positions at which the task has a permit of _speak_sem (taken, or handed
\* to it by a release)
WithPermit == {"semGranted", "lockWait", "lockGranted", "cs"}

\* the order in which the request flows entered their guards (kept for the
\* speak and mention flows only)
Entered(r) == IF kind[r] = "guard" THEN acqOrder ELSE Append(acqOrder, r)

RemoveFrom(q, r) == SelectSeq(q, LAMBDA x : x # r)

\* The second half of __aenter__, run by request r holding a permit:
\* "if self._chan_lock is not None: await self._chan_lock.acquire()"
\* with l the guard's lock.
TakeLock(r, l) ==
    IF l = NoLock
    THEN /\ pc' = [pc EXCEPT ![r] = "cs"]
         /\ acqOrder' = Entered(r)
         /\ UNCHANGED <<lockHeld, lockWaiters>>
    ELSE IF ~LockBusy(l)
    THEN /\ lockHeld' = [lockHeld EXCEPT ![l] = TRUE]
         /\ pc' = [pc EXCEPT ![r] = "cs"]
         /\ acqOrder' = Entered(r)
         /\ UNCHANGED lockWaiters
    ELSE /\ lockWaiters' = [lockWaiters EXCEPT ![l] = Append(@, r)]
         /\ pc' = [pc EXCEPT ![r] = "lockWait"]
         /\ UNCHANGED <<lockHeld, acqOrder>>

\* async with SpeakGuard(c): __init__ and __aenter__ up to its first suspension
Enter(r, c) ==
    /\ pc[r] = "idle"
    /\ chan' = [chan EXCEPT ![r] = c]
    /\ guardLock' = [guardLock EXCEPT ![r] = GuardLockFor(r, c)]
    /\ IF GuardLockFor(r, c) # NoLock
       THEN chanLocks' = [chanLocks EXCEPT ![c] = GuardLockFor(r, c)]
       ELSE UNCHANGED chanLocks
    /\ IF ~SemLocked
       THEN /\ semValue' = semValue - 1
            /\ TakeLock(r, GuardLockFor(r, c))
            /\ UNCHANGED semWaiters
       ELSE /\ semWaiters' = Append(semWaiters, r)
            /\ pc' = [pc EXCEPT ![r] = "semWait"]
            /\ UNCHANGED <<semValue, lockHeld, lockWaiters, acqOrder>>
    /\ UNCHANGED <<cfgVars, kind, parts, sent>>

\* the task is resumed with the permit a release handed to it
SemResume(r) ==
    /\ pc[r] = "semGranted"
    /\ TakeLock(r, guardLock[r])
    /\ UNCHANGED <<cfgVars, semValue, semWaiters, chanLocks, kind, chan, guardLock, parts, sent>>

\* the task is resumed with the channel lock a release handed to it
LockResume(r) ==
    /\ pc[r] = "lockGranted"
    /\ pc' = [pc EXCEPT ![r] = "cs"]
    /\ acqOrder' = Entered(r)
    /\ UNCHANGED <<cfgVars, guardVars, kind, chan, guardLock, parts, sent>>

\* Lock.release(): the first waiter, if any, is handed the lock
LockAfterRelease(l) ==
    IF lockWaiters[l] # <<>>
    THEN /\ lockWaiters' = [lockWaiters EXCEPT ![l] = Tail(@)]
         /\ UNCHANGED lockHeld
    ELSE /\ lockHeld' = [lockHeld EXCEPT ![l] = FALSE]
         /\ UNCHANGED lockWaiters

LockHeir(l) == IF lockWaiters[l] # <<>> THEN {Head(lockWaiters[l])} ELSE {}

\* Semaphore.release(): the first waiter, if any, is handed the permit
SemAfterRelease ==
    IF semWaiters # <<>>
    THEN /\ semWaiters' = Tail(semWaiters)
         /\ UNCHANGED semValue
    ELSE /\ semValue' = semValue + 1
         /\ UNCHANGED semWaiters

SemHeir == IF semWaiters # <<>> THEN {Head(semWaiters)} ELSE {}

\* where a task goes once its guard is released: a bare guard task is over
\* (its slot is free for a later request), a mention handler goes on to send
\* its reply, a speak handler returns
AfterExit(r, how) ==
    IF kind[r] = "guard" THEN "idle"
    ELSE IF kind[r] = "mention" /\ how = "return" THEN "sending"
    ELSE "done"

\* the task of a bare guard is gone with its SpeakGuard object
Forget(f, r, none) == IF kind[r] = "guard" THEN [f EXCEPT ![r] = none] ELSE f

\* _postprocess_by_traits returns [out] or [first sentence, rest]
PartCounts(r) == IF kind[r] = "mention" THEN {1, 2} ELSE {parts[r]}

\* the body ends (return, exception or cancellation) and __aexit__ runs; a
\* mention handler goes on, without suspending, to split its reply into parts
Exit(r, how) ==
    /\ pc[r] = "cs"
    /\ \E n \in PartCounts(r) : parts' = [parts EXCEPT ![r] = n]
    /\ IF AExitReleasesLock(r)
       THEN LockAfterRelease(guardLock[r])
       ELSE UNCHANGED <<lockHeld, lockWaiters>>
    /\ SemAfterRelease
    /\ pc' = [q \in Reqs |->
                IF q = r THEN AfterExit(r, how)
                ELSE IF AExitReleasesLock(r) /\ q \in LockHeir(guardLock[r]) THEN "lockGranted"
                ELSE IF q \in SemHeir THEN "semGranted"
                ELSE pc[q]]
    /\ chan' = Forget(chan, r, NoChan)
    /\ guardLock' = Forget(guardLock, r, NoLock)
    /\ UNCHANGED <<cfgVars, chanLocks, kind, sent, acqOrder>>

\* cancellation while queued on the semaphore: nothing is held
CancelSemWait(r) ==
    /\ pc[r] = "semWait"
    /\ semWaiters' = RemoveFrom(semWaiters, r)
    /\ pc' = [pc EXCEPT ![r] = "idle"]
    /\ chan' = Forget(chan, r, NoChan)
    /\ guardLock' = Forget(guardLock, r, NoLock)
    /\ UNCHANGED <<cfgVars, semValue, chanLocks, lockHeld, lockWaiters, kind, flowVars>>

\* cancellation after the permit was handed over but before the task ran:
\* Semaphore.acquire gives the permit back and wakes the next waiter
CancelSemGranted(r) ==
    /\ pc[r] = "semGranted"
    /\ SemAfterRelease
    /\ pc' = [q \in Reqs |->
                IF q = r THEN "idle"
                ELSE IF q \in SemHeir THEN "semGranted"
                ELSE pc[q]]
    /\ chan' = Forget(chan, r, NoChan)
    /\ guardLock' = Forget(guardLock, r, NoLock)
    /\ UNCHANGED <<cfgVars, chanLocks, lockHeld, lockWaiters, kind, flowVars>>

\* cancellation inside __aenter__ while queued on the channel lock: the
\* CancelledError leaves __aenter__, __aexit__ is not run, the permit stays taken
CancelLockWait(r) ==
    /\ pc[r] = "lockWait"
    /\ lockWaiters' = [lockWaiters EXCEPT ![guardLock[r]] = RemoveFrom(@, r)]
    /\ pc' = [pc EXCEPT ![r] = "idle"]
    /\ chan' = Forget(chan, r, NoChan)
    /\ guardLock' = Forget(guardLock, r, NoLock)
    /\ UNCHANGED <<cfgVars, semValue, semWaiters, chanLocks, lockHeld, kind, flowVars>>

\* cancellation after the lock was handed over but before the task ran:
\* Lock.acquire passes the lock on; __aexit__ is not run, the permit stays taken
CancelLockGranted(r) ==
    /\ pc[r] = "lockGranted"
    /\ LockAfterRelease(guardLock[r])
    /\ pc' = [q \in Reqs |->
                IF q = r THEN "idle"
                ELSE IF q \in LockHeir(guardLock[r]) THEN "lockGranted"
                ELSE pc[q]]
    /\ chan' = Forget(chan, r, NoChan)
    /\ guardLock' = Forget(guardLock, r, NoLock)
    /\ UNCHANGED <<cfgVars, semValue, semWaiters, chanLocks, kind, flowVars>>

InitCfg ==
    /\ speak_global_concurrency \in 0..MaxConc
    /\ speak_channel_exclusive \in BOOLEAN

\* the defaults of config.py, for the specifications the guard has no part in
CfgDefault ==
    /\ speak_global_concurrency = 2
    /\ speak_channel_exclusive = TRUE

InitGuard ==
    /\ semValue = InitSemValue
    /\ semWaiters = <<>>
    /\ chanLocks = [c \in Channels |-> NoLock]
    /\ lockHeld = [l \in LockIds |-> FALSE]
    /\ lockWaiters = [l \in LockIds |-> <<>>]

InitReqs(kinds) ==
    /\ pc = [r \in Reqs |-> "idle"]
    /\ kind \in [Reqs -> kinds]
    /\ chan = [r \in Reqs |-> NoChan]
    /\ guardLock = [r \in Reqs |-> NoLock]
    /\ parts = [r \in Reqs |-> 1]
    /\ sent = [r \in Reqs |-> 0]
    /\ acqOrder = <<>>

NoAdd == [n |-> 0, width |-> 0, m |-> 0, result |-> "none"]

\* SimpleIndex.__init__(dim, backend)
IndexNew(d, b) ==
    /\ backend = b
    /\ dim = d
    /\ vecs = <<>>
    /\ faissNtotal = 0
    /\ texts = <<>>
    /\ lastAdd = NoAdd

IndexUnused == IndexNew(FallbackDim, "numpy")

\* a file: absent, open for writing (truncated), or written
AbsentFile == [st |-> "absent", n |-> 0, texts |-> <<>>]
PartialFile == [st |-> "partial", n |-> 0, texts |-> <<>>]
Full(n, t) == [st |-> "full", n |-> n, texts |-> t]
\* save writes <path>.faiss, <path>.meta.json and <path>.texts.json, or
\* (np.savez_compressed appends ".npz" to a name without it) <path>.npz;
\* load reads the first three, or <path> itself
FileNames == {"idx", "idx.npz", "idx.faiss", "idx.meta.json", "idx.texts.json"}
\* what SimpleIndex.load returns: None, or an index
NoIndex == [found |-> FALSE, n |-> 0, texts |-> <<>>]
Found(n, t) == [found |-> TRUE, n |-> n, texts |-> t]

PersistUnused ==
    /\ fs = [f \in FileNames |-> AbsentFile]
    /\ saveTodo = <<>>
    /\ saveOpen = FALSE
    /\ crashed = FALSE
    /\ prev = NoIndex
    /\ loaded = NoIndex

NumBatches == 2               \* batches _finalize indexes
NumUpdates == 2               \* persona_update invocations
Updates == 1..NumUpdates
Finalize == 0                 \* the background task of persona_create
Flows == {Finalize} \cup Updates
\* entries: <<flow, batch>>
BatchOf(w, b) == {<<w, b>>}

IngestNew(persisted) ==
    /\ disk = persisted
    /\ mem = [w \in Flows |-> {}]
    /\ wpc = [w \in Flows |-> "start"]
    /\ batchNo = 0
    /\ completed = {}

IngestUnused == IngestNew({})

LlmNew(fn, prompt) ==
    /\ llmFn = fn
    /\ llmPrompt = prompt
    /\ llmPc = "called"
    /\ llmAttempts = <<>>
    /\ llmAcc = <<>>
    /\ llmResult = <<>>
    /\ llmEscaped = FALSE
    /\ llmExpired = FALSE
    /\ llmLate = 0
    /\ llmEnd = "none"
    /\ llmDeltas = <<>>

LlmUnused == LlmNew("complete", "generic")

LoopUnused ==
    /\ site = [r \in Reqs |-> 0]
    /\ inFlight = [r \in Reqs |-> FALSE]
    /\ loopBlocked = 0

SumNew(flow, items, hier, count, msgs, budget) ==
    /\ sumFlow = flow
    /\ corpus = items
    /\ hierarchical = hier
    /\ chunk_count = count
    /\ create_style_msgs = msgs
    /\ clock = budget
    /\ remaining = budget
    /\ spos = "start"
    /\ coll = <<>>
    /\ chunk_lists = <<>>
    /\ calls = <<>>
    /\ partials = <<>>
    /\ mergeInput = <<>>

SumUnused == SumNew("summarize", <<>>, TRUE, 1, 1, 0)

Epoch == 10           \* time.time() when the stream starts, in clock ticks
DeltaNew(interval, min_chars) ==
    /\ stream_edit_interval_ms = interval
    /\ stream_min_chunk_chars = min_chars
    /\ now = Epoch
    /\ last_edit = 0
    /\ dbuf = <<>>
    /\ deltas = <<>>
    /\ edited = <<>>
    /\ dpos = "stream"

DeltaUnused == DeltaNew(0, 0)

\* Retriever.index is None; a file that does not exist
NoneIndex == [exists |-> FALSE, backend |-> "none", dim |-> 0, vecs |-> <<>>, texts |-> <<>>]
\* the files of an index path: <path> (read by the numpy branch of load),
\* <path>.npz (written by np.savez_compressed), and the three faiss files
RetrFiles == {"idx", "idx.npz", "faiss"}
NoOp ==
    [op |-> "none", arg |-> <<>>, k |-> 0, src |-> "none", raised |-> FALSE, ready |-> FALSE,
     result |-> <<>>, sim |-> 0, index |-> NoneIndex, files |-> [f \in RetrFiles |-> NoneIndex]]

RetrNew(installed) ==
    /\ faissInstalled = installed
    /\ rindex = NoneIndex
    /\ rfiles = [f \in RetrFiles |-> NoneIndex]
    /\ added = <<>>
    /\ lastOp = NoOp

RetrUnused == RetrNew(FALSE)

\* str(channel_id), the key of a channel in STATE_FILE
Str(c) == <<"str", c>>
Keys == {Str(c) : c \in Channels}
NumUsers == 2
Users == 1..NumUsers
NoCmd == [op |-> "none", chan |-> NoChan, user |-> 0, before |-> [k \in Keys |-> 0],
          found |-> FALSE, uid |-> 0]

StateNew ==
    /\ state_file = [k \in Keys |-> 0]
    /\ profiles = {}
    /\ lastCmd = NoCmd

StateUnused == StateNew

NoTurn == [role |-> "none", req |-> 0]
SessNew(maxlen) ==
    /\ session_max_turns = maxlen
    /\ sessions = [c \in Channels |-> <<>>]
    /\ mpc = [r \in Reqs |-> "idle"]
    /\ mchan = [r \in Reqs |-> NoChan]
    /\ window = [r \in Reqs |-> <<>>]
    /\ startOrder = <<>>
    /\ lastTurn = [chan |-> NoChan, turn |-> NoTurn, before |-> [c \in Channels |-> <<>>]]

SessUnused == SessNew(0)

PiiNew(h) ==
    /\ history = h
    /\ sinks = {}
    /\ flowCmd = "none"

PiiUnused == PiiNew(<<>>)

EraseNew ==
    /\ pfile = [u \in Users |-> FALSE]
    /\ ifiles = [u \in Users |-> {}]
    /\ fin = [u \in Users |-> "none"]
    /\ erased = [u \in Users |-> FALSE]

EraseUnused == EraseNew

MaxItemsToCaption == 3
Urls == {"u1", "u2", "u3"}
NoUrl == ""
CapNew(stored, items, conc) ==
    /\ caption_cache = stored
    /\ to_caption = items
    /\ loop_url = NoUrl
    /\ capTask = [i \in 1..MaxItemsToCaption |-> "none"]
    /\ captioned = {}
    /\ summarize_caption_concurrency = conc
    /\ cpos = "scan"

CapUnused == CapNew([u \in Urls |-> <<>>], <<>>, 0)

LateUnused == SessUnused /\ PiiUnused /\ EraseUnused /\ CapUnused

EarlierUnused ==
    /\ PersistUnused /\ IngestUnused /\ LlmUnused /\ LoopUnused /\ SumUnused /\ DeltaUnused
    /\ RetrUnused /\ StateUnused

OtherUnused ==
    /\ PersistUnused /\ IngestUnused /\ LlmUnused /\ LoopUnused /\ SumUnused /\ DeltaUnused
    /\ RetrUnused /\ StateUnused /\ LateUnused

SpeakUnused ==
    /\ speak_stream = FALSE
    /\ persona = "unbound"
    /\ backendDim = FallbackDim
    /\ indexSrc = "none"
    /\ sp = "unused"
    /\ retrieved = <<>>
    /\ msg = "unset"
    /\ acc = <<>>
    /\ buf = <<>>
    /\ draft = <<>>
    /\ draft1 = <<>>
    /\ simVal = 0
    /\ simSrc = "none"
    /\ genCalls = <<>>
    /\ whOut = "none"
    /\ followups = <<>>
    /\ shown = <<>>

\* ---------------------------------------------- specification: the guard
\* Tasks run "async with SpeakGuard(c): body", up to NumReqs of them at a
\* time; a body may return, raise or be cancelled, and a task may be
\* cancelled at every suspension point of __aenter__.
Init == InitCfg /\ InitGuard /\ InitReqs({"guard"}) /\ SpeakUnused /\ IndexUnused /\ OtherUnused

Next ==
    /\ UNCHANGED <<speakVars, indexVars, otherVars>>
    /\ \E r \in Reqs :
        \/ \E c \in Channels \cup {NoChan} : Enter(r, c)
        \/ SemResume(r)
        \/ LockResume(r)
        \/ \E how \in {"return", "raise", "cancel"} : Exit(r, how)
        \/ CancelSemWait(r)
        \/ CancelSemGranted(r)
        \/ CancelLockWait(r)
        \/ CancelLockGranted(r)

Spec == Init /\ [][Next]_vars

\* ------------------------------------------------------ claims: the guard
InCS == {r \in Reqs : pc[r] = "cs"}
AllIdle == \A r \in Reqs : pc[r] = "idle"

\* C1: with N = max(1, speak_global_concurrency), at most N guards are inside
\* their critical section in every reachable state, so an (N+1)-th request
\* enters only after one of the N holders has released.
C1_GlobalLimit == Cardinality(InCS) <= Max(1, speak_global_concurrency)

\* N holders inside, and one more request queued behind them
C1_Witness ==
    /\ speak_global_concurrency = 2
    /\ Cardinality(InCS) = 2
    /\ \E r \in Reqs : pc[r] = "semWait"

\* C2: with speak_channel_exclusive on, no two guards of the same channel are
\* inside their critical section together, whatever N is, and every guard of
\* a channel was given the one lock registered for that channel.
C2_ChannelExclusive ==
    speak_channel_exclusive =>
        /\ \A a, b \in Reqs :
              (a # b /\ pc[a] = "cs" /\ pc[b] = "cs" /\ chan[a] # NoChan)
                  => chan[a] # chan[b]
        /\ \A r \in Reqs :
              (pc[r] # "idle" /\ chan[r] # NoChan) => guardLock[r] = chanLocks[chan[r]]

\* two permits exist, yet the second request of the channel waits for the lock
C2_Witness ==
    /\ speak_channel_exclusive
    /\ speak_global_concurrency = 2
    /\ \E a, b \in Reqs :
          a # b /\ chan[a] = chan[b] /\ pc[a] = "cs" /\ pc[b] = "lockWait"

\* C3: on every exit path (return, exception, cancellation at any suspension
\* point) the permit and the channel lock a guard took are released exactly
\* once: every permit is in the semaphore or with a live task, every taken
\* lock is with a live task, and once all requests have ended the semaphore
\* has all N permits again and every channel lock is free.
C3_ReleasedOnEveryPath ==
    /\ semValue + Cardinality({r \in Reqs : pc[r] \in WithPermit})
          = Max(1, speak_global_concurrency)
    /\ \A l \in LockIds :
          lockHeld[l] => \E r \in Reqs : guardLock[r] = l /\ pc[r] \in {"cs", "lockGranted"}
    /\ AllIdle =>
          /\ semValue = Max(1, speak_global_concurrency)
          /\ \A l \in LockIds : ~lockHeld[l]

\* C4: the semaphore is taken before the channel lock and given back after it
\* (a task that has or awaits a channel lock has a permit), and no reachable
\* state is a deadlock: whenever a request waits in __aenter__, some task is
\* inside its critical section or is about to be resumed with the resource it
\* waited for, so that the waiting request can still be served.
C4_DeadlockFree ==
    /\ \A l \in LockIds :
          lockHeld[l] => \E r \in Reqs : guardLock[r] = l /\ pc[r] \in WithPermit
    /\ (\E r \in Reqs : pc[r] \in Waiting)
          => \E q \in Reqs : pc[q] \in {"cs", "semGranted", "lockGranted"}

\* C33: while every permit is accounted for and fewer than N guards are
\* inside their critical section, no request whose channel lock is free (or
\* that takes no channel lock) is queued on the semaphore.
C33_NoHeadOfLine ==
    \A r \in Reqs :
        (/\ pc[r] = "semWait"
         /\ guardLock[r] = NoLock \/ ~LockBusy(guardLock[r])
         /\ semValue + Cardinality({q \in Reqs : pc[q] \in WithPermit})
               = Max(1, speak_global_concurrency))
            => Cardinality(InCS) >= Max(1, speak_global_concurrency)

\* ------------------------------------- specification: order of delivery
\* /persona speak (persona.py 275-415): every send and edit of the response
\* is inside "async with SpeakGuard"
SpeakDeliver(r) ==
    /\ pc[r] = "cs"
    /\ kind[r] = "speak"
    /\ sent[r] < parts[r]
    /\ sent' = [sent EXCEPT ![r] = parts[r]]
    /\ UNCHANGED <<cfgVars, guardVars, reqVars, parts, acqOrder>>

\* mention (mention_speak.py 168-180): the parts are sent, one await each,
\* after the guard was left
MentionSendPart(r) ==
    /\ pc[r] = "sending"
    /\ sent' = [sent EXCEPT ![r] = @ + 1]
    /\ pc' = [pc EXCEPT ![r] = IF sent[r] + 1 = parts[r] THEN "done" ELSE "sending"]
    /\ UNCHANGED <<cfgVars, guardVars, kind, chan, guardLock, parts, acqOrder>>

InitOrder == InitCfg /\ InitGuard /\ InitReqs({"speak", "mention"}) /\ SpeakUnused /\ IndexUnused /\ OtherUnused

NextOrder ==
    /\ UNCHANGED <<speakVars, indexVars, otherVars>>
    /\ \E r \in Reqs :
        \/ \E c \in Channels : Enter(r, c)
        \/ SemResume(r)
        \/ LockResume(r)
        \/ SpeakDeliver(r)
        \/ (kind[r] = "speak" => sent[r] = parts[r]) /\ Exit(r, "return")
        \/ MentionSendPart(r)

SpecOrder == InitOrder /\ [][NextOrder]_vars

FullyDelivered(r) == sent[r] = parts[r]

EnteredBefore(a, b) ==
    \E i, j \in 1..Len(acqOrder) : i < j /\ acqOrder[i] = a /\ acqOrder[j] = b

\* C9: with the per-channel lock enabled, of two requests of one channel the
\* one that entered the guard later is not fully delivered while the earlier
\* one is not, on the /persona speak path and on the mention path.
C9_DeliveredInGuardOrder ==
    speak_channel_exclusive =>
        \A a, b \in Reqs :
            (chan[a] = chan[b] /\ EnteredBefore(a, b) /\ FullyDelivered(b))
                => FullyDelivered(a)

\* ------------------------------- specification: one /persona speak request
\* Texts are sequences of fragments; concatenation is \o.
MaxFrags == 2                 \* fragments a stream delivers at most
Frags == {"a", "b"}
GenTexts == {<<"a">>, <<"b">>}     \* texts a completion returns
IndexTexts == {<<"a">>}            \* the texts of the persisted index, if any
Stub == <<"[stubbed LLM]">>        \* LocalLLMClient.complete's fallback text
Ellipsis == <<"...">>              \* the initial content of the streamed message
Rephrase == "Rephrase completely in your own words and avoid phrases from snippets."
SpeakBudgets ==
    [max_tokens |-> "cfg.speak_max_tokens", temperature |-> "cfg.speak_temperature",
     num_ctx |-> "cfg.speak_num_ctx"]
\* what is left of the keyword arguments once complete_stream has popped them
PoppedBudgets == [max_tokens |-> "unset", temperature |-> "unset", num_ctx |-> "unset"]
T == 1                        \* the task that runs the handler

\* utils/webhook.py send_via_webhook: what it returns for each outcome
WebhookOutcomes == {"unsupported", "nohook", "raised", "sent"}
send_via_webhook(outcome) ==
    IF outcome = "unsupported" THEN "False"      \* not a TextChannel or Thread
    ELSE IF outcome = "nohook" THEN "False"      \* get_or_create_channel_webhook gave None
    ELSE IF outcome = "raised" THEN "None"       \* wh.send raised
    ELSE "Message"

\* rag/retriever.py, llm/local_client.py embed
EmbedSources == {"backend", "fallback"}
EmbedDim(src) == IF src = "backend" THEN backendDim ELSE FallbackDim
is_ready == indexSrc # "none"
\* SimpleIndex.search: the product of a query and vectors of another width raises
SearchRaises(qsrc) == EmbedDim(qsrc) # EmbedDim(indexSrc)
\* scores (in hundredths) a text can get; a stored text embedded the way the
\* index was embedded meets its own vector
\* (the fallback vectors are seeded by hash(text), which differs between
\* the process that built the index and this one)
OtherScores == {-20, 0, 92, 93}
Scores(text, qsrc) ==
    IF text \in IndexTexts /\ qsrc = indexSrc
    THEN IF qsrc = "backend" THEN {100} ELSE {100} \cup OtherScores
    ELSE OtherScores

\* persona_speak: "if sim > 0.92"
ExceedsThreshold_orEqual(v) == v >= Threshold
ExceedsThreshold(v) == v > Threshold

\* build_speak_prompt(username, combined_style, prompt, retrieved)
SpeakPrompt ==
    <<"system", "style", "user">>
        \o (IF retrieved # <<>> THEN <<"[Relevant snippets]">> \o retrieved ELSE <<>>)

GenCall(fn, prompt) == [fn |-> fn, prompt |-> prompt, opts |-> SpeakBudgets]

restVars == <<cfgVars, guardVars, reqVars, flowVars, indexVars, otherVars>>

\* lines 263-270: the active persona and its stored data are looked up
SpeakLookup ==
    /\ sp = "start"
    /\ IF persona = "unbound"
       THEN /\ followups' = Append(followups, <<"No active persona.">>)
            /\ sp' = "ended"
       ELSE IF persona = "nodata"
       THEN /\ followups' = Append(followups, <<"Active persona data missing.">>)
            /\ sp' = "ended"
       ELSE /\ sp' = "guard"
            /\ UNCHANGED followups
    /\ UNCHANGED <<restVars, speak_stream, persona, backendDim, indexSrc, retrieved, msg, acc,
                   buf, draft, draft1, simVal, simSrc, genCalls, whOut, shown>>

\* line 275: async with SpeakGuard(...)
SpeakEnter ==
    /\ sp = "guard"
    /\ \E c \in Channels \cup {NoChan} : Enter(T, c)
    /\ UNCHANGED <<speakVars, indexVars, otherVars>>

\* lines 276-310: Retriever(...), query in a worker thread (failures give no
\* snippets), prompt built
SpeakRetrieve ==
    /\ sp = "guard"
    /\ pc[T] = "cs"
    /\ IF is_ready
       THEN \E qsrc \in EmbedSources :
               retrieved' = IF SearchRaises(qsrc) THEN <<>> ELSE <<"a">>
       ELSE retrieved' = <<>>
    /\ sp' = IF speak_stream THEN "initmsg" ELSE "generate"
    /\ UNCHANGED <<restVars, speak_stream, persona, backendDim, indexSrc, msg, acc, buf, draft,
                   draft1, simVal, simSrc, genCalls, whOut, followups, shown>>

\* lines 324-360: the initial message is sent (webhook, else followup) and
\* complete_stream is started in a worker thread
SpeakInitMsg ==
    /\ sp = "initmsg"
    /\ \E o \in WebhookOutcomes :
        /\ whOut' = o
        /\ IF send_via_webhook(o) = "None"
           THEN /\ msg' = "Followup"
                /\ followups' = Append(followups, Ellipsis)
                /\ shown' = Ellipsis
           ELSE IF send_via_webhook(o) = "Message"
           THEN /\ msg' = "Webhook"
                /\ shown' = Ellipsis
                /\ UNCHANGED followups
           ELSE /\ msg' = "False"
                /\ UNCHANGED <<followups, shown>>
    /\ genCalls' = Append(genCalls, GenCall("complete_stream", SpeakPrompt))
    /\ sp' = "stream"
    /\ UNCHANGED <<restVars, speak_stream, persona, backendDim, indexSrc, retrieved, acc, buf,
                   draft, draft1, simVal, simSrc>>

\* on_delta(s), run in the worker thread: the fragment is buffered; when the
\* throttle lets an edit through, asyncio.create_task raises (no running loop
\* in that thread), the exception is swallowed and the buffer is kept
OnDelta(s) == buf \o s

\* complete_stream: a fragment arrives
StreamFragment ==
    /\ sp = "stream"
    /\ Len(acc) < MaxFrags
    /\ \E f \in Frags :
        /\ acc' = Append(acc, f)
        /\ buf' = OnDelta(<<f>>)
    /\ UNCHANGED <<restVars, speak_stream, persona, backendDim, indexSrc, sp, retrieved, msg,
                   draft, draft1, simVal, simSrc, genCalls, whOut, followups, shown>>

\* complete_stream: the stream is done or the deadline passed
StreamEnd ==
    /\ sp = "stream"
    /\ draft' = acc
    /\ draft1' = acc
    /\ sp' = "flush"
    /\ UNCHANGED <<restVars, speak_stream, persona, backendDim, indexSrc, retrieved, msg, acc,
                   buf, simVal, simSrc, genCalls, whOut, followups, shown>>

\* complete_stream: the request raises; self.complete is tried once, its
\* text (the stub text when it fails too) is given to on_delta and returned
StreamFail ==
    /\ sp = "stream"
    /\ \E t \in GenTexts \cup {Stub} :
        /\ draft' = t
        /\ draft1' = t
        /\ buf' = OnDelta(t)
    /\ genCalls' = Append(genCalls, [fn |-> "fallback", prompt |-> SpeakPrompt, opts |-> PoppedBudgets])
    /\ sp' = "flush"
    /\ UNCHANGED <<restVars, speak_stream, persona, backendDim, indexSrc, retrieved, msg, acc,
                   simVal, simSrc, whOut, followups, shown>>

\* lines 361-366: "if buf: await msg.edit(content=''.join(buf))", errors ignored
SpeakFlush ==
    /\ sp = "flush"
    /\ shown' = IF buf # <<>> /\ msg # "False" THEN buf ELSE shown
    /\ sp' = "check"
    /\ UNCHANGED <<restVars, speak_stream, persona, backendDim, indexSrc, retrieved, msg, acc,
                   buf, draft, draft1, simVal, simSrc, genCalls, whOut, followups>>

\* lines 368-376: blocking llm.complete (never raises: stub text on failure)
SpeakGenerate ==
    /\ sp = "generate"
    /\ \E t \in GenTexts \cup {Stub} :
        /\ draft' = t
        /\ draft1' = t
    /\ genCalls' = Append(genCalls, GenCall("complete", SpeakPrompt))
    /\ sp' = "check"
    /\ UNCHANGED <<restVars, speak_stream, persona, backendDim, indexSrc, retrieved, msg, acc,
                   buf, simVal, simSrc, whOut, followups, shown>>

\* lines 379-380: sim = retr.similarity_to_nearest(draft) if retr.is_ready()
\* else 0.0, outside any try
SpeakCheck ==
    /\ sp = "check"
    /\ IF ~is_ready
       THEN /\ simVal' = 0
            /\ simSrc' = "none"
            /\ sp' = IF ExceedsThreshold(0) THEN "retry" ELSE "deliver"
       ELSE \E qsrc \in EmbedSources :
            /\ simSrc' = qsrc
            /\ IF SearchRaises(qsrc)
               THEN /\ sp' = "raised"
                    /\ UNCHANGED simVal
               ELSE \E v \in Scores(draft, qsrc) :
                    /\ simVal' = v
                    /\ sp' = IF ExceedsThreshold(v) THEN "retry" ELSE "deliver"
    /\ UNCHANGED <<restVars, speak_stream, persona, backendDim, indexSrc, retrieved, msg, acc,
                   buf, draft, draft1, genCalls, whOut, followups, shown>>

\* lines 381-388: the retry
SpeakRetry ==
    /\ sp = "retry"
    /\ \E t \in GenTexts \cup {Stub} : draft' = t
    /\ genCalls' = Append(genCalls, GenCall("complete", SpeakPrompt \o <<Rephrase>>))
    /\ sp' = "deliver"
    /\ UNCHANGED <<restVars, speak_stream, persona, backendDim, indexSrc, retrieved, msg, acc,
                   buf, draft1, simVal, simSrc, whOut, followups, shown>>

\* lines 391-415: streaming: an ephemeral "Sent." and nothing else;
\* blocking: send_via_webhook(draft), and followup.send if it returned None
SpeakDeliverFinal ==
    /\ sp = "deliver"
    /\ IF speak_stream
       THEN /\ followups' = Append(followups, <<"Sent.">>)
            /\ UNCHANGED <<whOut, shown>>
       ELSE \E o \in WebhookOutcomes :
            /\ whOut' = o
            /\ IF send_via_webhook(o) = "None"
               THEN /\ followups' = Append(followups, draft)
                    /\ shown' = draft
               ELSE IF send_via_webhook(o) = "Message"
               THEN /\ shown' = draft
                    /\ UNCHANGED followups
               ELSE UNCHANGED <<followups, shown>>
    /\ sp' = "finished"
    /\ UNCHANGED <<restVars, speak_stream, persona, backendDim, indexSrc, retrieved, msg, acc,
                   buf, draft, draft1, simVal, simSrc, genCalls>>

\* the handler returns, or the exception of the similarity check leaves it
SpeakReturn == sp = "finished" /\ Exit(T, "return") /\ UNCHANGED <<speakVars, indexVars, otherVars>>
SpeakRaise == sp = "raised" /\ Exit(T, "raise") /\ UNCHANGED <<speakVars, indexVars, otherVars>>

InitSpeak ==
    /\ InitCfg /\ InitGuard /\ InitReqs({"speak"})
    /\ speak_stream \in BOOLEAN
    /\ persona \in {"unbound", "nodata", "ok"}
    /\ backendDim \in {FallbackDim, dim_hint}
    /\ indexSrc \in {"none", "backend", "fallback"}
    /\ sp = "start"
    /\ retrieved = <<>>
    /\ msg = "unset"
    /\ acc = <<>>
    /\ buf = <<>>
    /\ draft = <<>>
    /\ draft1 = <<>>
    /\ simVal = 0
    /\ simSrc = "none"
    /\ genCalls = <<>>
    /\ whOut = "none"
    /\ followups = <<>>
    /\ shown = <<>>
    /\ IndexUnused
    /\ OtherUnused

NextSpeak ==
    \/ SpeakLookup
    \/ SpeakEnter
    \/ SpeakRetrieve
    \/ SpeakInitMsg
    \/ StreamFragment
    \/ StreamEnd
    \/ StreamFail
    \/ SpeakFlush
    \/ SpeakGenerate
    \/ SpeakCheck
    \/ SpeakRetry
    \/ SpeakDeliverFinal
    \/ SpeakReturn
    \/ SpeakRaise

SpecSpeak == InitSpeak /\ [][NextSpeak]_vars

\* ------------------------------------------- specification: SimpleIndex
MaxBatch == 2                 \* vectors, and texts, one add call is given at most
MaxTexts == 4                 \* add is not called once this many texts are stored
Widths == {FallbackDim, dim_hint}
Repeat(x, n) == [i \in 1..n |-> x]

\* the number of vectors the index holds
StoredVectors == IF backend = "faiss" THEN faissNtotal ELSE Len(vecs)

\* add(embeddings, texts) with embeddings of shape (n, width) and m texts:
\* faiss's add and numpy's vstack raise on rows of another width, before
\* the texts are touched; nothing compares n with m
AddRaises(width) == width # dim
add(n, width, m) ==
    IF AddRaises(width)
    THEN /\ lastAdd' = [n |-> n, width |-> width, m |-> m, result |-> "raised"]
         /\ UNCHANGED <<vecs, faissNtotal, texts>>
    ELSE /\ IF backend = "faiss"
            THEN /\ faissNtotal' = faissNtotal + n
                 /\ UNCHANGED vecs
            ELSE /\ vecs' = vecs \o Repeat(width, n)
                 /\ UNCHANGED faissNtotal
         /\ texts' = texts \o Repeat("t", m)
         /\ lastAdd' = [n |-> n, width |-> width, m |-> m, result |-> "applied"]

Add ==
    /\ Len(texts) < MaxTexts
    /\ StoredVectors < MaxTexts
    /\ \E n \in 0..MaxBatch, m \in 0..MaxBatch, width \in Widths : add(n, width, m)
    /\ UNCHANGED <<backend, dim, cfgVars, guardVars, reqVars, flowVars, speakVars, otherVars>>

InitIndex ==
    /\ InitCfg /\ InitGuard /\ InitReqs({"guard"}) /\ SpeakUnused /\ OtherUnused
    /\ \E d \in Widths, b \in {"numpy", "faiss"} : IndexNew(d, b)

NextIndex == Add

SpecIndex == InitIndex /\ [][NextIndex]_vars

\* C10: the index holds as many vectors as texts, and an add given a number
\* of vectors other than its number of texts ends in a length-mismatch error
\* without being applied.
C10_VectorsMatchTexts ==
    /\ StoredVectors = Len(texts)
    /\ lastAdd.n # lastAdd.m => lastAdd.result = "LengthMismatch"

\* ------------------------- specification: SimpleIndex.save and .load
\* the files save writes, in the order it writes them
SaveFiles ==
    IF backend = "faiss" THEN <<"idx.faiss", "idx.meta.json", "idx.texts.json">>
    ELSE <<"idx.npz">>

\* what save puts into a file
SaveContent(name) ==
    IF name = "idx.faiss" THEN Full(faissNtotal, <<>>)
    ELSE IF name = "idx.meta.json" THEN Full(Len(texts), <<>>)
    ELSE IF name = "idx.texts.json" THEN Full(0, texts)
    ELSE Full(Len(vecs), texts)

\* SimpleIndex.load(path) on the files f; every read failure gives None
load(f) ==
    IF f["idx.meta.json"].st # "absent"
    THEN IF /\ f["idx.meta.json"].st = "full"
            /\ f["idx.faiss"].st = "full"
            /\ f["idx.texts.json"].st = "full"
         THEN Found(f["idx.faiss"].n, f["idx.texts.json"].texts)
         ELSE NoIndex
    ELSE IF f["idx"].st = "full" THEN Found(f["idx"].n, f["idx"].texts)
    ELSE NoIndex

outsidePersist ==
    <<cfgVars, guardVars, reqVars, flowVars, speakVars, ingestVars, llmVars, loopVars, sumVars,
      deltaVars, retrVars,
      stateVars, lateVars>>

\* Retriever.add_texts on its index: index.add(vecs, texts), then save begins
AddTexts ==
    /\ ~crashed
    /\ saveTodo = <<>>
    /\ \E n \in 1..MaxBatch :
        /\ Len(texts) + n <= MaxTexts
        /\ add(n, dim, n)
    /\ prev' = load(fs)
    /\ saveTodo' = SaveFiles
    /\ UNCHANGED <<backend, dim, fs, saveOpen, crashed, loaded, outsidePersist>>

\* save opens the next file for writing, which truncates it
SaveOpen ==
    /\ ~crashed
    /\ saveTodo # <<>>
    /\ ~saveOpen
    /\ fs' = [fs EXCEPT ![Head(saveTodo)] = PartialFile]
    /\ saveOpen' = TRUE
    /\ UNCHANGED <<indexVars, saveTodo, crashed, prev, loaded, outsidePersist>>

\* the file is written and closed
SaveClose ==
    /\ ~crashed
    /\ saveOpen
    /\ fs' = [fs EXCEPT ![Head(saveTodo)] = SaveContent(Head(saveTodo))]
    /\ saveTodo' = Tail(saveTodo)
    /\ saveOpen' = FALSE
    /\ UNCHANGED <<indexVars, crashed, prev, loaded, outsidePersist>>

\* the save stops, because a write raises or the process dies; the files
\* stay as they are
Crash ==
    /\ ~crashed
    /\ saveTodo # <<>>
    /\ crashed' = TRUE
    /\ UNCHANGED <<indexVars, fs, saveTodo, saveOpen, prev, loaded, outsidePersist>>

\* another Retriever is constructed (a speak request, or a new process)
Load ==
    /\ loaded' = load(fs)
    /\ loaded' # loaded
    /\ UNCHANGED <<indexVars, fs, saveTodo, saveOpen, crashed, prev, outsidePersist>>

InitPersist ==
    /\ InitCfg /\ InitGuard /\ InitReqs({"guard"}) /\ SpeakUnused
    /\ \E d \in Widths, b \in {"numpy", "faiss"} : IndexNew(d, b)
    /\ PersistUnused
    /\ IngestUnused
    /\ LlmUnused
    /\ LoopUnused
    /\ SumUnused
    /\ DeltaUnused
    /\ RetrUnused
    /\ StateUnused
    /\ LateUnused

NextPersist ==
    \/ AddTexts
    \/ SaveOpen
    \/ SaveClose
    \/ Crash
    \/ Load

SpecPersist == InitPersist /\ [][NextPersist]_vars

InMemory == Found(StoredVectors, texts)

\* C11: at every point of a save (and after a crash at that point) a load
\* returns the index as persisted before the add_texts call or the index
\* after it, with as many vectors as texts (stated for the faiss backend).
C11_SaveAtomic ==
    backend = "faiss" =>
        /\ load(fs) \in {prev, InMemory}
        /\ load(fs).n = Len(load(fs).texts)

\* C13: once save has returned for a non-empty index, load returns an index
\* with the vectors and texts of the saved one; with no file at the path,
\* load returns the no-index result.
C13_RoundTrip ==
    /\ (saveTodo = <<>> /\ ~crashed /\ texts # <<>>) => load(fs) = InMemory
    /\ (\A f \in FileNames : fs[f] = AbsentFile) => load(fs) = NoIndex

\* s is a prefix of t
IsPrefix(s, t) == Len(s) <= Len(t) /\ SubSeq(t, 1, Len(s)) = s

\* C30: when the save of an add_texts call of an ingestion run fails, a load
\* still returns an index holding the texts that were persisted before the
\* call.
C30_FailureKeepsIngested ==
    (crashed /\ prev.found) =>
        /\ load(fs).found
        /\ IsPrefix(prev.texts, load(fs).texts)
        /\ load(fs).n >= prev.n

\* ------------------- specification: the flows that write one index
\* (save is taken as one step here, and load as reading what was saved)
outsideIngest ==
    <<cfgVars, guardVars, reqVars, flowVars, speakVars, indexVars, persistVars, llmVars,
      loopVars, sumVars, deltaVars, retrVars,
      stateVars, lateVars>>

\* persona_update runs from Retriever(...) to the return of add_texts without
\* an await: meanwhile nothing else runs on the event loop
LoopBusy == \E u \in Updates : wpc[u] \in {"loaded", "adding"}
InAddTexts == {w \in Flows : wpc[w] = "adding"}

\* _finalize, line 215: retr = Retriever(index_path, embed_fn=llm.embed)
FinLoad ==
    /\ wpc[Finalize] = "start"
    /\ ~LoopBusy
    /\ mem' = [mem EXCEPT ![Finalize] = disk]
    /\ wpc' = [wpc EXCEPT ![Finalize] = "loaded"]
    /\ UNCHANGED <<disk, batchNo, completed, outsideIngest>>

\* line 220: await to_thread(retr.add_texts, batch): the worker thread starts
FinAddBegin ==
    /\ wpc[Finalize] = "loaded"
    /\ batchNo < NumBatches
    /\ ~LoopBusy
    /\ batchNo' = batchNo + 1
    /\ wpc' = [wpc EXCEPT ![Finalize] = "adding"]
    /\ UNCHANGED <<disk, mem, completed, outsideIngest>>

\* add_texts of flow w: index.add and index.save of that Retriever's index
add_texts(w, batch) ==
    /\ mem' = [mem EXCEPT ![w] = @ \cup batch]
    /\ disk' = mem[w] \cup batch
    /\ completed' = completed \cup batch

\* the worker thread finishes add_texts (it needs no turn of the event loop)
FinAddEnd ==
    /\ wpc[Finalize] = "adding"
    /\ add_texts(Finalize, BatchOf(Finalize, batchNo))
    /\ wpc' = [wpc EXCEPT ![Finalize] = IF batchNo = NumBatches THEN "done" ELSE "loaded"]
    /\ UNCHANGED <<batchNo, outsideIngest>>

\* persona_update, line 479: retr = Retriever(index_path, embed_fn=llm.embed)
UpdLoad(u) ==
    /\ wpc[u] = "start"
    /\ ~LoopBusy
    /\ mem' = [mem EXCEPT ![u] = disk]
    /\ wpc' = [wpc EXCEPT ![u] = "loaded"]
    /\ UNCHANGED <<disk, batchNo, completed, outsideIngest>>

\* line 482: retr.add_texts(to_add), called on the event loop
UpdAddBegin(u) ==
    /\ wpc[u] = "loaded"
    /\ wpc' = [wpc EXCEPT ![u] = "adding"]
    /\ UNCHANGED <<disk, mem, batchNo, completed, outsideIngest>>

UpdAddEnd(u) ==
    /\ wpc[u] = "adding"
    /\ add_texts(u, BatchOf(u, 1))
    /\ wpc' = [wpc EXCEPT ![u] = "done"]
    /\ UNCHANGED <<batchNo, outsideIngest>>

InitIngest ==
    /\ InitCfg /\ InitGuard /\ InitReqs({"guard"}) /\ SpeakUnused /\ IndexUnused
    /\ PersistUnused
    /\ \E persisted \in {{}, {<<Finalize, 0>>}} : IngestNew(persisted)
    /\ LlmUnused
    /\ LoopUnused
    /\ SumUnused
    /\ DeltaUnused
    /\ RetrUnused
    /\ StateUnused
    /\ LateUnused

NextIngest ==
    \/ FinLoad
    \/ FinAddBegin
    \/ FinAddEnd
    \/ \E u \in Updates : UpdLoad(u)
    \/ \E u \in Updates : UpdAddBegin(u)
    \/ \E u \in Updates : UpdAddEnd(u)

SpecIngest == InitIngest /\ [][NextIngest]_vars

\* C12: executions of add_texts on one persona's index never overlap, and
\* once the flows have ended the persisted index holds the entries of every
\* add_texts call that returned.
C12_SingleWriter ==
    /\ Cardinality(InAddTexts) <= 1
    /\ (\A w \in Flows : wpc[w] = "done") => completed \subseteq disk

\* ----------------- specification: one call of the generation client
outsideLlm ==
    <<cfgVars, guardVars, reqVars, flowVars, speakVars, indexVars, persistVars, ingestVars,
      loopVars, sumVars, deltaVars, retrVars,
      stateVars, lateVars>>

\* the prompts complete's fallback tells apart (local_client.py 66-89)
PromptKinds == {"speak", "create", "summarize", "generic"}
StubFor(prompt) == <<"[stubbed LLM]", prompt>>
IsStub(t) == t # <<>> /\ t[1] = "[stubbed LLM]"
\* what a successful request returns ("" when the reply has no text field)
Replies == GenTexts \cup {<<>>}

\* where a request can fail, and what complete's and complete_stream's try
\* blocks cover
CompletePoints == {"post", "raise_for_status", "json", "get"}
CompleteTry_withoutJson == {"post", "raise_for_status"}
CompleteTry == {"post", "raise_for_status", "json", "get"}
StreamPoints == {"post", "raise_for_status", "iter_lines"}
StreamTry == {"post", "raise_for_status", "iter_lines", "on_delta"}

Attempt(fn, ok) == [fn |-> fn, prompt |-> llmPrompt, ok |-> ok]

\* LocalLLMClient.complete (lines 57-89), as called directly or by
\* complete_stream's except branch
complete(from) ==
    /\ llmPc = from
    /\ \/ \E t \in Replies :
            /\ llmAttempts' = Append(llmAttempts, Attempt("complete", TRUE))
            /\ llmResult' = t
            /\ llmPc' = "returned"
            /\ UNCHANGED llmEscaped
       \/ \E p \in CompletePoints :
            /\ llmAttempts' = Append(llmAttempts, Attempt("complete", FALSE))
            /\ IF p \in CompleteTry
               THEN /\ llmResult' = StubFor(llmPrompt)
                    /\ llmPc' = "returned"
                    /\ UNCHANGED llmEscaped
               ELSE /\ llmEscaped' = TRUE
                    /\ llmPc' = "raised"
                    /\ UNCHANGED llmResult
    /\ llmDeltas' = IF from = "except" /\ llmPc' = "returned"
                    THEN Append(llmDeltas, llmResult')
                    ELSE llmDeltas
    /\ UNCHANGED <<llmFn, llmPrompt, llmAcc, boxVars, outsideLlm>>

Complete == llmFn = "complete" /\ complete("called")

\* complete_stream, lines 133-136: the request is sent and answered
StreamOpen ==
    /\ llmFn = "complete_stream"
    /\ llmPc = "called"
    /\ llmPc' = "streaming"
    /\ UNCHANGED <<llmFn, llmPrompt, llmAttempts, llmAcc, llmResult, llmEscaped, boxVars,
                   llmDeltas, outsideLlm>>

\* the wall clock passes the deadline of line 131 (never, without a budget)
DeadlinePasses ==
    /\ llmFn = "complete_stream"
    /\ llmPc \in {"called", "streaming"}
    /\ ~llmExpired
    /\ llmExpired' = TRUE
    /\ UNCHANGED <<llmFn, llmPrompt, llmPc, llmAttempts, llmAcc, llmResult, llmEscaped, llmLate,
                   llmEnd, llmDeltas, outsideLlm>>

\* lines 154-155: if time.time() > deadline: break
DeadlineBreak_never == FALSE
DeadlineBreak == llmExpired

\* line 163, reached from a break or from the end of the lines
StreamReturn(text, how) ==
    /\ llmAttempts' = Append(llmAttempts, Attempt("complete_stream", TRUE))
    /\ llmResult' = text
    /\ llmPc' = "returned"
    /\ llmEnd' = how

\* lines 137-155: a line with text arrives; an exception of on_delta is
\* ignored; the deadline is looked at after the fragment is accepted
StreamChunk ==
    /\ llmPc = "streaming"
    /\ Len(llmAcc) < MaxFrags
    /\ \E f \in Frags :
          /\ llmAcc' = Append(llmAcc, f)
          /\ llmDeltas' = Append(llmDeltas, <<f>>)
    /\ llmLate' = llmLate + (IF llmExpired THEN 1 ELSE 0)
    /\ IF DeadlineBreak
       THEN StreamReturn(llmAcc', "deadline")
       ELSE UNCHANGED <<llmPc, llmAttempts, llmResult, llmEnd>>
    /\ UNCHANGED <<llmFn, llmPrompt, llmEscaped, llmExpired, outsideLlm>>

\* lines 137-145, 148, 154: a line without text: an empty or unparsable one
\* is skipped before the deadline is looked at, a parsed one is not
LineKinds == {"empty", "unparsable", "notext"}
StreamOther ==
    /\ llmPc = "streaming"
    /\ \E k \in LineKinds :
          IF k = "notext" /\ DeadlineBreak
          THEN StreamReturn(llmAcc, "deadline")
          ELSE UNCHANGED <<llmPc, llmAttempts, llmResult, llmEnd>>
    /\ UNCHANGED <<llmFn, llmPrompt, llmAcc, llmEscaped, llmExpired, llmLate, llmDeltas,
                   outsideLlm>>

\* lines 146-147, 163: a done line or the end of the lines
StreamDone ==
    /\ llmPc = "streaming"
    /\ StreamReturn(llmAcc, "done")
    /\ UNCHANGED <<llmFn, llmPrompt, llmAcc, llmEscaped, llmExpired, llmLate, llmDeltas,
                   outsideLlm>>

\* lines 156-158: the request fails, at once or while lines are read
StreamError ==
    /\ llmFn = "complete_stream"
    /\ llmPc \in {"called", "streaming"}
    /\ llmAttempts' = Append(llmAttempts, Attempt("complete_stream", FALSE))
    /\ \E p \in StreamPoints :
          IF p \in StreamTry
          THEN llmPc' = "except" /\ UNCHANGED llmEscaped
          ELSE llmPc' = "raised" /\ llmEscaped' = TRUE
    /\ UNCHANGED <<llmFn, llmPrompt, llmAcc, llmResult, boxVars, llmDeltas, outsideLlm>>

\* lines 158-162: text = self.complete(prompt, **kw); return text
StreamFallback == llmFn = "complete_stream" /\ complete("except")

InitLlm ==
    /\ InitCfg /\ InitGuard /\ InitReqs({"guard"}) /\ SpeakUnused /\ IndexUnused
    /\ PersistUnused /\ IngestUnused
    /\ \E fn \in {"complete", "complete_stream"}, prompt \in PromptKinds : LlmNew(fn, prompt)
    /\ LoopUnused
    /\ SumUnused
    /\ DeltaUnused
    /\ RetrUnused
    /\ StateUnused
    /\ LateUnused

NextLlm ==
    \/ Complete
    \/ StreamOpen
    \/ DeadlinePasses
    \/ StreamChunk
    \/ StreamOther
    \/ StreamDone
    \/ StreamError
    \/ StreamFallback

SpecLlm == InitLlm /\ [][NextLlm]_vars

RECURSIVE Concat(_)
Concat(ss) == IF ss = <<>> THEN <<>> ELSE Head(ss) \o Concat(Tail(ss))
AttemptsOf(fn) == {i \in 1..Len(llmAttempts) : llmAttempts[i].fn = fn}
AllFailed == \A i \in 1..Len(llmAttempts) : ~llmAttempts[i].ok

\* C14: no backend exception leaves complete or complete_stream; a failed
\* streaming request is followed by exactly one blocking request for the same
\* prompt and a streaming request that succeeded by none; the marked
\* placeholder is returned exactly when every request of the call failed.
C14_FallbackOnceThenPlaceholder ==
    /\ ~llmEscaped
    /\ llmPc # "raised"
    /\ Cardinality(AttemptsOf("complete_stream")) <= 1
    /\ Cardinality(AttemptsOf("complete")) <= 1
    /\ \A i \in 1..Len(llmAttempts) : llmAttempts[i].prompt = llmPrompt
    /\ llmPc = "returned" =>
          /\ llmAttempts # <<>>
          /\ IsStub(llmResult) <=> AllFailed
          /\ AllFailed => llmResult = StubFor(llmPrompt)
          /\ llmFn = "complete" => Len(llmAttempts) = 1
          /\ llmFn = "complete_stream" =>
                /\ llmAttempts[1].fn = "complete_stream"
                /\ ~llmAttempts[1].ok <=> Len(llmAttempts) = 2
                /\ Len(llmAttempts) = 2 => llmAttempts[2].fn = "complete"

\* the stream failed after a fragment, the blocking request failed, and the
\* placeholder was returned
C14_Witness ==
    /\ llmFn = "complete_stream"
    /\ llmPc = "returned"
    /\ llmAcc # <<>>
    /\ Len(llmAttempts) = 2
    /\ AllFailed
    /\ IsStub(llmResult)

C35_DeltasAreResult ==
    (llmFn = "complete_stream" /\ llmPc = "returned") => Concat(llmDeltas) = llmResult

\* ------------- specification: the flows' backend calls and the event loop
outsideLoop ==
    <<speakVars, indexVars, persistVars, ingestVars, llmVars, sumVars, deltaVars, retrVars,
      stateVars, lateVars>>

\* a backend call in the source: the client method, its line, whether it is
\* handed to a worker thread (asyncio.to_thread), whether it is inside
\* "async with SpeakGuard", whether it is a generation call
Call(fn, line, offloaded, guarded) ==
    [fn |-> fn, line |-> line, offloaded |-> offloaded, guarded |-> guarded,
     gen |-> fn \in {"complete", "complete_stream"}]

\* the backend calls of each flow, in the order it makes them
CallsOf(k) ==
    IF k = "speak" THEN          \* persona.py persona_speak
        << Call("embed", 281, TRUE, TRUE), Call("complete_stream", 352, TRUE, TRUE),
           Call("embed", 379, FALSE, TRUE), Call("complete", 382, TRUE, TRUE) >>
    ELSE IF k = "mention" THEN   \* mention_speak.py on_message
        << Call("embed", 106, TRUE, FALSE), Call("complete", 147, TRUE, TRUE) >>
    ELSE IF k = "finalize" THEN  \* persona.py persona_create._finalize
        << Call("vision_describe", 103, TRUE, FALSE), Call("complete", 147, TRUE, FALSE),
           Call("complete", 172, TRUE, FALSE), Call("embed", 220, TRUE, FALSE) >>
    ELSE IF k = "update" THEN    \* persona.py persona_update
        << Call("vision_describe", 471, FALSE, FALSE), Call("embed", 482, FALSE, FALSE),
           Call("complete", 493, FALSE, FALSE) >>
    ELSE IF k = "summarize" THEN \* persona.py persona_summarize
        << Call("vision_describe", 617, TRUE, FALSE), Call("complete", 667, FALSE, FALSE),
           Call("complete", 686, FALSE, FALSE) >>
    ELSE                         \* bot.py on_ready._prewarm
        << Call("complete", 49, TRUE, FALSE) >>

FlowKinds == {"speak", "mention", "finalize", "update", "summarize", "prewarm"}
Guarded == {"speak", "mention"}
\* calls a guarded flow makes before it enters its guard
CallsBeforeGuard(k) == IF k = "mention" THEN 1 ELSE 0
NextCall(r) == CallsOf(kind[r])[site[r] + 1]
LoopFree == loopBlocked = 0

LoopEnter(r) ==
    /\ LoopFree
    /\ kind[r] \in Guarded
    /\ site[r] = CallsBeforeGuard(kind[r])
    /\ \E c \in Channels : Enter(r, c)
    /\ UNCHANGED <<loopVars, outsideLoop>>

LoopSemResume(r) == LoopFree /\ SemResume(r) /\ UNCHANGED <<loopVars, outsideLoop>>

LoopLockResume(r) == LoopFree /\ LockResume(r) /\ UNCHANGED <<loopVars, outsideLoop>>

\* the task reaches its next backend call: the call runs in a worker thread
\* while the task awaits it, or on the event-loop thread itself
CallBegin(r) ==
    /\ LoopFree
    /\ ~inFlight[r]
    /\ site[r] < Len(CallsOf(kind[r]))
    /\ pc[r] = IF NextCall(r).guarded THEN "cs" ELSE "idle"
    /\ inFlight' = [inFlight EXCEPT ![r] = TRUE]
    /\ loopBlocked' = IF NextCall(r).offloaded THEN 0 ELSE r
    /\ UNCHANGED <<site, cfgVars, guardVars, reqVars, flowVars, outsideLoop>>

\* the backend answers (or fails)
CallEnd(r) ==
    /\ inFlight[r]
    /\ inFlight' = [inFlight EXCEPT ![r] = FALSE]
    /\ site' = [site EXCEPT ![r] = @ + 1]
    /\ loopBlocked' = IF loopBlocked = r THEN 0 ELSE loopBlocked
    /\ UNCHANGED <<cfgVars, guardVars, reqVars, flowVars, outsideLoop>>

LoopExit(r) ==
    /\ LoopFree
    /\ site[r] = Len(CallsOf(kind[r]))
    /\ Exit(r, "return")
    /\ UNCHANGED <<loopVars, outsideLoop>>

InitLoop ==
    /\ InitCfg /\ InitGuard /\ InitReqs(FlowKinds)
    /\ Cardinality({r \in Reqs : kind[r] = "prewarm"}) <= 1
    /\ SpeakUnused /\ IndexUnused /\ PersistUnused /\ IngestUnused /\ LlmUnused
    /\ LoopUnused
    /\ SumUnused
    /\ DeltaUnused
    /\ RetrUnused
    /\ StateUnused
    /\ LateUnused

NextLoop ==
    \E r \in Reqs :
        \/ LoopEnter(r)
        \/ LoopSemResume(r)
        \/ LoopLockResume(r)
        \/ CallBegin(r)
        \/ CallEnd(r)
        \/ LoopExit(r)

SpecLoop == InitLoop /\ [][NextLoop]_vars

GenInFlight == {r \in Reqs : inFlight[r] /\ NextCall(r).gen}

\* C15: while a backend call of a request is in flight, the event loop is
\* free for the handlers of other requests.
C15_CallsOffLoop == \A r \in Reqs : inFlight[r] => LoopFree

\* C16: the generation calls in flight, over all flows, number at most
\* max(1, speak_global_concurrency).
C16_GenerationBound == Cardinality(GenInFlight) <= Max(1, speak_global_concurrency)

\* ------------------------- specification: hierarchical summarization
outsideSum ==
    <<cfgVars, guardVars, reqVars, flowVars, speakVars, indexVars, persistVars, ingestVars,
      llmVars, loopVars, deltaVars, retrVars,
      stateVars, lateVars>>

MaxItems == 12                \* items of the collection at most
MaxChunks == 5                \* configured chunk count at most
SumThreshold == 10            \* persona_summarize: len(used) > 10
HierFloor == 30               \* _finalize: remaining > 30
CapFloor == 60                \* _finalize: remaining > 60, remaining < 60
ReducedCap == 64              \* _finalize: 64 if remaining < 60
FullCap == 96                 \* cfg.create_chunk_max_tokens, cfg.summarize_chunk_max_tokens
Clocks == {20, 30, 45, 60, 90} \* budgets left at which the clock is read
Min(a, b) == IF a <= b THEN a ELSE b
Items(n) == [i \in 1..n |-> i]

\* s[-k:] for k >= 1
LastK(s, k) == SubSeq(s, Max(1, Len(s) - k + 1), Len(s))

\* size = max(1, (len(c) + chunks - 1) // chunks)
ChunkSize(n, chunks) == Max(1, (n + chunks - 1) \div chunks)

\* [c[i : i + size] for i in range(0, len(c), size)]
ChunkLists_overlapping(c, chunks) ==
    LET size == ChunkSize(Len(c), chunks)
        k == (Len(c) + size - 1) \div size
    IN [j \in 1..k |-> SubSeq(c, Max(1, (j - 1) * size), Min(j * size, Len(c)))]
ChunkLists(c, chunks) ==
    LET size == ChunkSize(Len(c), chunks)
        k == (Len(c) + size - 1) \div size
    IN [j \in 1..k |-> SubSeq(c, (j - 1) * size + 1, Min(j * size, Len(c)))]

\* persona_summarize, lines 658-662
SumStart ==
    /\ sumFlow = "summarize"
    /\ spos = "start"
    /\ coll' = corpus
    /\ IF hierarchical /\ Len(corpus) > SumThreshold
       THEN /\ chunk_lists' = ChunkLists(corpus, Max(1, chunk_count))
            /\ spos' = "chunks"
       ELSE /\ spos' = "single"
            /\ UNCHANGED chunk_lists
    /\ UNCHANGED <<sumFlow, corpus, hierarchical, chunk_count, create_style_msgs, clock,
                   remaining, calls, partials, mergeInput, outsideSum>>

\* _finalize, lines 135-144; "remaining" is computed here, once
DesiredChunksAt(rem) == IF rem > CapFloor THEN chunk_count ELSE Max(2, Min(chunk_count, 2))
desired_chunks == DesiredChunksAt(clock)
StyleStart ==
    /\ sumFlow = "style"
    /\ spos = "start"
    /\ remaining' = clock
    /\ IF hierarchical /\ clock > HierFloor
       THEN /\ coll' = LastK(corpus, create_style_msgs * Max(1, desired_chunks))
            /\ chunk_lists' = ChunkLists(coll', Max(1, desired_chunks))
            /\ spos' = "chunks"
       ELSE /\ coll' = LastK(corpus, create_style_msgs)
            /\ spos' = "single"
            /\ UNCHANGED chunk_lists
    /\ UNCHANGED <<sumFlow, corpus, hierarchical, chunk_count, create_style_msgs, clock, calls,
                   partials, mergeInput, outsideSum>>

\* time passes while the style build runs
Tick ==
    /\ sumFlow = "style"
    /\ spos = "chunks"
    /\ \E t \in Clocks : t < clock /\ clock' = t
    /\ UNCHANGED <<sumFlow, corpus, hierarchical, chunk_count, create_style_msgs, remaining,
                   spos, coll, chunk_lists, calls, partials, mergeInput, outsideSum>>

\* max_tokens of a chunk call (line 150; persona_summarize line 669)
ChunkCap ==
    IF sumFlow = "style" /\ remaining < CapFloor THEN ReducedCap ELSE FullCap

\* what llm.complete returns for a chunk prompt: a text, or its stub text
\* when the backend fails
ChunkResult(ok) ==
    IF ok THEN <<"partial">>
    ELSE StubFor(IF sumFlow = "style" THEN "create" ELSE "summarize")

SumCall(k, j, input, ok) ==
    [kind |-> k, chunk |-> j, input |-> input, cap |-> ChunkCap, ok |-> ok, at |-> clock]

\* the loop body: one llm.complete per chunk list, its result appended
ChunkCall ==
    /\ spos = "chunks"
    /\ Len(partials) < Len(chunk_lists)
    /\ \E ok \in BOOLEAN :
        LET j == Len(partials) + 1 IN
        /\ calls' = Append(calls, SumCall("chunk", j, chunk_lists[j], ok))
        /\ partials' = Append(partials, [chunk |-> j, text |-> ChunkResult(ok)])
    /\ UNCHANGED <<sumFlow, corpus, hierarchical, chunk_count, create_style_msgs, clock,
                   remaining, spos, coll, chunk_lists, mergeInput, outsideSum>>

\* build_merge_*_prompt(..., partials) and the merge llm.complete
MergeCall ==
    /\ spos = "chunks"
    /\ Len(partials) = Len(chunk_lists)
    /\ mergeInput' = partials
    /\ \E ok \in BOOLEAN : calls' = Append(calls, SumCall("merge", 0, <<>>, ok))
    /\ spos' = "done"
    /\ UNCHANGED <<sumFlow, corpus, hierarchical, chunk_count, create_style_msgs, clock,
                   remaining, coll, chunk_lists, partials, outsideSum>>

\* the single llm.complete of the non-hierarchical branch
SingleCall ==
    /\ spos = "single"
    /\ \E ok \in BOOLEAN : calls' = Append(calls, SumCall("single", 0, coll, ok))
    /\ spos' = "done"
    /\ UNCHANGED <<sumFlow, corpus, hierarchical, chunk_count, create_style_msgs, clock,
                   remaining, coll, chunk_lists, partials, mergeInput, outsideSum>>

InitSum ==
    /\ CfgDefault /\ InitGuard /\ InitReqs({"guard"})
    /\ SpeakUnused /\ IndexUnused /\ PersistUnused /\ IngestUnused /\ LlmUnused /\ LoopUnused
    /\ DeltaUnused
    /\ RetrUnused
    /\ StateUnused
    /\ LateUnused
    /\ \E n \in 0..MaxItems, hier \in BOOLEAN, count \in 1..MaxChunks :
          \/ SumNew("summarize", Items(n), hier, count, 1, 0)
          \/ \E msgs \in {1, 3}, budget \in Clocks :
                SumNew("style", Items(n), hier, count, msgs, budget)

NextSum ==
    \/ SumStart
    \/ StyleStart
    \/ Tick
    \/ ChunkCall
    \/ MergeCall
    \/ SingleCall

SpecSum == InitSum /\ [][NextSum]_vars

CallsOfKind(k) == {i \in 1..Len(calls) : calls[i].kind = k}

\* C17: a finished run over fewer items than the threshold made exactly one
\* call; a finished hierarchical run made exactly chunk_count chunk calls and
\* then one merge call (summarize with more items than the threshold; style
\* build with the full budget, for every non-empty corpus).
C17_CallCount ==
    spos = "done" =>
        /\ (sumFlow = "summarize" /\ Len(corpus) < SumThreshold) => Len(calls) = 1
        /\ (hierarchical /\ (\/ sumFlow = "summarize" /\ Len(corpus) > SumThreshold
                             \/ sumFlow = "style" /\ remaining > CapFloor /\ corpus # <<>>))
              => /\ Cardinality(CallsOfKind("chunk")) = chunk_count
                 /\ Cardinality(CallsOfKind("merge")) = 1
                 /\ calls[Len(calls)].kind = "merge"

C19_ChunkFailureAbsorbed ==
    CallsOfKind("merge") # {} =>
        /\ Cardinality(CallsOfKind("chunk")) = Len(chunk_lists)
        /\ \A i \in CallsOfKind("chunk") : ~calls[i].ok => mergeInput[i].text = <<>>

\* C20: a chunk call of the style build issued while less than the floor is
\* left of the budget uses the reduced token cap.
C20_CapFollowsBudget ==
    \A i \in CallsOfKind("chunk") :
        (sumFlow = "style" /\ calls[i].at < CapFloor) => calls[i].cap = ReducedCap

\* chunks: the chunk count a run splits its collection by (lines 143, 659)
chunks ==
    IF sumFlow = "style" THEN Max(1, DesiredChunksAt(remaining)) ELSE Max(1, chunk_count)

\* C21: a run that chunks uses a chunk count of at least 2; in the style
\* build the chunk count used with less budget left is never above the one
\* used with more budget left; a style build started with 30 seconds or less
\* left makes exactly one call, the single one.
C21_ChunkCountUnderBudget ==
    /\ (spos = "chunks" \/ CallsOfKind("merge") # {}) => chunks >= 2
    /\ (sumFlow = "style" /\ hierarchical) =>
          \A b1, b2 \in Clocks :
              (HierFloor < b1 /\ b1 <= b2) =>
                  Max(1, DesiredChunksAt(b1)) <= Max(1, DesiredChunksAt(b2))
    /\ (spos = "done" /\ sumFlow = "style" /\ remaining <= HierFloor) =>
          /\ Len(calls) = 1
          /\ calls[1].kind = "single"

\* ------------------- specification: on_delta of a streaming speak request
outsideDelta ==
    <<cfgVars, guardVars, reqVars, flowVars, speakVars, indexVars, persistVars, ingestVars,
      llmVars, loopVars, sumVars, retrVars,
      stateVars, lateVars>>

MaxDeltas == 3                \* fragments a stream delivers at most
MaxNow == 13                  \* the clock is not followed beyond this tick
Intervals == {0, 2}           \* values of cfg.stream_edit_interval_ms, in ticks
MinChars == {0, 1, 3}         \* values of cfg.stream_min_chunk_chars
DeltaFrags == {<<"a">>, <<"b", "c">>}   \* fragments, as their characters

\* sum(len(x) for x in buf)
BufChars(b) == Len(Concat(b))

\* (now - last_edit) * 1000.0 >= cfg.stream_edit_interval_ms and
\* sum(len(x) for x in buf) >= cfg.stream_min_chunk_chars
ThrottleOpen_either(b) ==
    \/ now - last_edit >= stream_edit_interval_ms
    \/ BufChars(b) >= stream_min_chunk_chars
ThrottleOpen(b) ==
    /\ now - last_edit >= stream_edit_interval_ms
    /\ BufChars(b) >= stream_min_chunk_chars

\* asyncio.create_task(msg.edit(...)) inside on_delta: on_delta is called by
\* complete_stream, which persona_speak runs through asyncio.to_thread; the
\* worker thread has no running event loop, so create_task raises
\* RuntimeError, which the except clause of on_delta swallows
CreateTaskRaises == TRUE

DeltaCall(b, tried, flushed) ==
    [at |-> now, since |-> now - last_edit, chars |-> BufChars(b), tried |-> tried,
     flushed |-> flushed, kept |-> ~flushed]

\* on_delta(s), lines 333-349
on_delta ==
    /\ dpos = "stream"
    /\ Len(deltas) < MaxDeltas
    /\ \E s \in DeltaFrags :
        LET b == Append(dbuf, s) IN
        IF ThrottleOpen(b)
        THEN IF CreateTaskRaises
             THEN /\ dbuf' = b
                  /\ deltas' = Append(deltas, DeltaCall(b, TRUE, FALSE))
                  /\ UNCHANGED <<last_edit, edited>>
             ELSE /\ edited' = Append(edited, Concat(b))
                  /\ last_edit' = now
                  /\ dbuf' = <<>>
                  /\ deltas' = Append(deltas, DeltaCall(b, TRUE, TRUE))
        ELSE /\ dbuf' = b
             /\ deltas' = Append(deltas, DeltaCall(b, FALSE, FALSE))
             /\ UNCHANGED <<last_edit, edited>>
    /\ UNCHANGED <<stream_edit_interval_ms, stream_min_chunk_chars, now, dpos, outsideDelta>>

\* time passes between two lines of the stream
ClockTick ==
    /\ dpos = "stream"
    /\ now < MaxNow
    /\ now' = now + 1
    /\ UNCHANGED <<stream_edit_interval_ms, stream_min_chunk_chars, last_edit, dbuf, deltas,
                   edited, dpos, outsideDelta>>

\* complete_stream returns
DeltaStreamEnd ==
    /\ dpos = "stream"
    /\ dpos' = "flush"
    /\ UNCHANGED <<stream_edit_interval_ms, stream_min_chunk_chars, now, last_edit, dbuf,
                   deltas, edited, outsideDelta>>

\* lines 361-366: if buf: await msg.edit(content="".join(buf))
FinalFlush ==
    /\ dpos = "flush"
    /\ edited' = IF dbuf # <<>> THEN Append(edited, Concat(dbuf)) ELSE edited
    /\ dpos' = "done"
    /\ UNCHANGED <<stream_edit_interval_ms, stream_min_chunk_chars, now, last_edit, dbuf,
                   deltas, outsideDelta>>

InitDelta ==
    /\ CfgDefault /\ InitGuard /\ InitReqs({"guard"})
    /\ SpeakUnused /\ IndexUnused /\ PersistUnused /\ IngestUnused /\ LlmUnused /\ LoopUnused
    /\ SumUnused
    /\ RetrUnused
    /\ StateUnused
    /\ LateUnused
    /\ \E i \in Intervals, c \in MinChars : DeltaNew(i, c)

NextDelta ==
    \/ on_delta
    \/ ClockTick
    \/ DeltaStreamEnd
    \/ FinalFlush

SpecDelta == InitDelta /\ [][NextDelta]_vars

\* C23: an on_delta call schedules an edit (or tries to) only when the time
\* since the previous scheduled edit is at least the interval and the
\* buffered characters are at least the minimum; a call made when either
\* condition is unmet keeps the fragment in the buffer and schedules nothing,
\* so nothing is shown before the stream ends other than by such calls.
C23_DualThrottle ==
    /\ \A i \in 1..Len(deltas) :
          LET d == deltas[i]
              met == d.since >= stream_edit_interval_ms /\ d.chars >= stream_min_chunk_chars
          IN /\ (d.tried \/ d.flushed) => met
             /\ ~met => d.kept /\ ~d.tried /\ ~d.flushed
    /\ dpos = "stream" =>
          Len(edited) = Cardinality({i \in 1..Len(deltas) : deltas[i].flushed})

\* a first fragment came below the minimum and was only buffered, a later
\* one brought the buffer to the minimum and an edit was tried
C23_Witness ==
    /\ Len(deltas) >= 2
    /\ ~deltas[1].tried /\ deltas[1].kept
    /\ deltas[1].chars < stream_min_chunk_chars
    /\ deltas[Len(deltas)].tried
    /\ Len(dbuf) = Len(deltas)

\* ------------------------------------------- specification: Retriever
\* Vectors are tuples of integers; normalized vectors and scores are in
\* hundredths (Scale). The embedding backend returns vectors of width 2,
\* LocalLLMClient.embed's fallback vectors of width 3.
outsideRetr ==
    <<cfgVars, guardVars, reqVars, flowVars, speakVars, indexVars, persistVars, ingestVars,
      llmVars, loopVars, sumVars, deltaVars, stateVars, lateVars>>

Scale == 100
MaxRTexts == 3                \* texts given to the add_texts calls of a run at most
MaxK == 2                     \* k of a query at most
RTexts == {"a", "b", "c"}
Batches == {<<t>> : t \in RTexts} \cup {<<"a", "b">>, <<"a", "a">>}

\* embed_fn(texts), one row per text: what the embedding model returns, or
\* the rows of embed's except branch
embed_row(t, src) ==
    IF src = "backend"
    THEN CASE t = "a" -> <<3, 0>>
           [] t = "b" -> <<0, 2>>
           [] OTHER -> <<-3, 4>>
    ELSE CASE t = "a" -> <<1, 2, 2>>
           [] t = "b" -> <<-2, 1, 2>>
           [] OTHER -> <<0, 0, -1>>
embed_fn(ts, src) == [i \in 1..Len(ts) |-> embed_row(ts[i], src)]

RECURSIVE SumSq(_)
SumSq(v) == IF v = <<>> THEN 0 ELSE Head(v) * Head(v) + SumSq(Tail(v))
ISqrt(n) == CHOOSE r \in 0..n : r * r <= n /\ n < (r + 1) * (r + 1)
\* np.linalg.norm(vecs, axis=1) + 1e-8; vecs / norms
normalize_row(v) ==
    LET norm == ISqrt(SumSq(v)) IN
    [i \in 1..Len(v) |-> IF norm = 0 THEN 0 ELSE (v[i] * Scale) \div norm]
normalize(vs) == [i \in 1..Len(vs) |-> normalize_row(vs[i])]

\* one entry of queries @ self.vecs.T (faiss: IndexFlatIP, the inner product)
RECURSIVE DotSum(_, _)
DotSum(u, v) == IF u = <<>> THEN 0 ELSE Head(u) * Head(v) + DotSum(Tail(u), Tail(v))
Dot_abs(u, v) == LET d == DotSum(u, v) \div Scale IN IF d < 0 THEN -d ELSE d
Dot(u, v) == DotSum(u, v) \div Scale

\* Retriever.is_ready
RetrieverReady_indexOnly(ix) == ix.exists
RetrieverReady(ix) == ix.exists /\ Len(ix.texts) > 0

\* SimpleIndex.load(path): the faiss files when the meta file exists (None
\* when faiss cannot be imported), else the file at <path> itself
load_index(files) ==
    IF files["faiss"].exists
    THEN IF faissInstalled THEN files["faiss"] ELSE NoneIndex
    ELSE files["idx"]

\* SimpleIndex(dim, backend): "faiss" falls back to "numpy" without faiss
SimpleIndex(d, b) ==
    [exists |-> TRUE, backend |-> IF b = "faiss" /\ faissInstalled THEN "faiss" ELSE "numpy",
     dim |-> d, vecs |-> <<>>, texts |-> <<>>]

\* SimpleIndex.save(path): the faiss files, or np.savez_compressed(str(path))
\* which writes <path>.npz
save_index(ix, files) ==
    IF ix.backend = "faiss" THEN [files EXCEPT !["faiss"] = ix]
    ELSE [files EXCEPT !["idx.npz"] = ix]

\* SimpleIndex.add: faiss's add and numpy's vstack raise on another width
WidthMismatch_never(ix, vs) == FALSE
WidthMismatch(ix, vs) == \E i \in 1..Len(vs) : Len(vs[i]) # ix.dim
index_add(ix, vs, ts) == [ix EXCEPT !.vecs = @ \o vs, !.texts = @ \o ts]

\* SimpleIndex.search for one query: the rows by decreasing score, cut at k.
\* np.argsort(-srow) uses an unstable sort and faiss keeps a heap, so rows
\* of equal score come in any order.
SearchOrders(ix, qv, k) ==
    LET n == Len(ix.vecs)
        m == IF k < n THEN k ELSE n
        sc(i) == Dot(qv, ix.vecs[i])
    IN {o \in [1..m -> 1..n] :
          /\ \A x, y \in 1..m : x < y => o[x] # o[y] /\ sc(o[x]) >= sc(o[y])
          /\ \A i \in 1..n : (\A x \in 1..m : o[x] # i) => \A x \in 1..m : sc(o[x]) >= sc(i)}
search(ix, qv, k) ==
    {[x \in 1..Len(o) |-> [row |-> o[x], text |-> ix.texts[o[x]], score |-> Dot(qv, ix.vecs[o[x]])]] :
        o \in SearchOrders(ix, qv, k)}

\* query: "if not self.index or not self.index.texts: return []"
QueryEmpty_never(ix) == FALSE
QueryEmpty(ix) == ~ix.exists \/ ix.texts = <<>>

RetrOp(op, arg, k, src, raised, result, sim) ==
    [op |-> op, arg |-> arg, k |-> k, src |-> src, raised |-> raised,
     ready |-> RetrieverReady(rindex), result |-> result, sim |-> sim, index |-> rindex,
     files |-> rfiles]

\* Retriever.__init__(index_path, embed_fn)
RetrieverInit ==
    /\ rindex' = load_index(rfiles)
    /\ lastOp' = RetrOp("init", <<>>, 0, "none", FALSE, <<>>, 0)
    /\ UNCHANGED <<faissInstalled, rfiles, added, outsideRetr>>

\* Retriever.add_texts(texts)
RetrAddTexts ==
    \E ts \in Batches, src \in EmbedSources :
        LET vs == normalize(embed_fn(ts, src))
            ix == IF rindex.exists THEN rindex ELSE SimpleIndex(Len(vs[1]), "faiss")
        IN
        /\ Len(ix.texts) + Len(ts) <= MaxRTexts
        /\ Len(added) + Len(ts) <= MaxRTexts
        /\ IF WidthMismatch(ix, vs)
           THEN /\ lastOp' = RetrOp("add_texts", ts, 0, src, TRUE, <<>>, 0)
                /\ UNCHANGED <<rindex, rfiles, added>>
           ELSE /\ rindex' = index_add(ix, vs, ts)
                /\ rfiles' = save_index(rindex', rfiles)
                /\ added' = added \o [i \in 1..Len(ts) |-> [text |-> ts[i], src |-> src]]
                /\ lastOp' = RetrOp("add_texts", ts, 0, src, FALSE, <<>>, 0)
        /\ UNCHANGED <<faissInstalled, outsideRetr>>

\* what query(q, k) can do: return a result list, or raise (exc)
QueryOutcomes(q, k, src) ==
    IF QueryEmpty(rindex) THEN {[raised |-> FALSE, result |-> <<>>]}
    ELSE IF ~rindex.exists THEN {[raised |-> TRUE, result |-> <<>>]}
    ELSE LET qv == normalize(embed_fn(<<q>>, src))[1] IN
         IF Len(qv) # rindex.dim THEN {[raised |-> TRUE, result |-> <<>>]}
         ELSE {[raised |-> FALSE, result |-> r] : r \in search(rindex, qv, k)}

\* Retriever.query(q, k)
RetrQuery ==
    /\ \E q \in RTexts, k \in 1..MaxK, src \in EmbedSources :
          \E o \in QueryOutcomes(q, k, src) :
              lastOp' = RetrOp("query", <<q>>, k, src, o.raised, o.result, 0)
    /\ UNCHANGED <<faissInstalled, rindex, rfiles, added, outsideRetr>>

\* Retriever.similarity_to_nearest(text): res[0][1] if res else 0.0
similarity_to_nearest ==
    /\ \E text \in RTexts, src \in EmbedSources :
          \E o \in QueryOutcomes(text, 1, src) :
              lastOp' = RetrOp("similarity_to_nearest", <<text>>, 1, src, o.raised, o.result,
                               IF o.result # <<>> THEN o.result[1].score ELSE 0)
    /\ UNCHANGED <<faissInstalled, rindex, rfiles, added, outsideRetr>>

InitRetr ==
    /\ CfgDefault /\ InitGuard /\ InitReqs({"guard"})
    /\ SpeakUnused /\ IndexUnused /\ PersistUnused /\ IngestUnused /\ LlmUnused /\ LoopUnused
    /\ SumUnused /\ DeltaUnused /\ StateUnused /\ LateUnused
    /\ \E installed \in BOOLEAN : RetrNew(installed)

NextRetr ==
    \/ RetrieverInit
    \/ RetrAddTexts
    \/ RetrQuery
    \/ similarity_to_nearest

SpecRetr == InitRetr /\ [][NextRetr]_vars

OpWidth == Len(embed_row(lastOp.arg[1], lastOp.src))

\* C25: every row of an index has the width of the first batch; an
\* add_texts whose rows have another width raises and leaves the index in
\* memory and the files as they were; an add_texts with the width of the
\* index is applied and saved, and a query with that width on an index with
\* texts returns min(k, rows) results, whatever failed before.
C25_DimensionFixed ==
    /\ rindex.exists =>
          /\ \A i \in 1..Len(rindex.vecs) : Len(rindex.vecs[i]) = rindex.dim
          /\ Len(rindex.vecs) = Len(rindex.texts)
    /\ lastOp.op = "add_texts" =>
          LET mismatch == lastOp.index.exists /\ OpWidth # lastOp.index.dim IN
          /\ lastOp.raised <=> mismatch
          /\ mismatch => rindex = lastOp.index /\ rfiles = lastOp.files
          /\ ~mismatch =>
                /\ rindex.dim = OpWidth
                /\ rindex.texts = lastOp.index.texts \o lastOp.arg
                /\ SubSeq(rindex.vecs, 1, Len(lastOp.index.vecs)) = lastOp.index.vecs
                /\ \E f \in RetrFiles : rfiles[f] = rindex
    /\ (lastOp.op = "query" /\ lastOp.ready /\ OpWidth = lastOp.index.dim) =>
          /\ ~lastOp.raised
          /\ Len(lastOp.result) = Min(lastOp.k, Len(lastOp.index.texts))

\* an index of two rows of width 2, saved; an add_texts with a row of
\* width 3 raised
C25_Witness ==
    /\ lastOp.op = "add_texts"
    /\ lastOp.raised
    /\ rindex.dim = 2 /\ OpWidth = 3
    /\ Len(rindex.texts) = 2
    /\ \E f \in RetrFiles : rfiles[f] = rindex

\* the index one add_texts call with all the texts added so far builds
OneCall ==
    LET ts == [i \in 1..Len(added) |-> added[i].text]
        vs == normalize(embed_fn(ts, added[1].src))
    IN index_add(SimpleIndex(Len(vs[1]), "faiss"), vs, ts)

\* C26: after an add_texts call that followed earlier ones (on the same
\* Retriever or on one constructed again over the files), all with the same
\* embedding function, every query and k gets the results it gets from an
\* index built by one add_texts call with all the texts.
C26_AddTextsAssociative ==
    (/\ lastOp.op = "add_texts" /\ ~lastOp.raised
     /\ Len(added) > Len(lastOp.arg)
     /\ \A i \in 1..Len(added) : added[i].src = added[1].src) =>
        /\ rindex.texts = OneCall.texts
        /\ \A q \in RTexts, k \in 1..MaxK :
              LET qv == normalize(embed_fn(<<q>>, added[1].src))[1] IN
              search(rindex, qv, k) = search(OneCall, qv, k)

\* C27: a query answered by search returns min(k, rows) results with
\* non-increasing scores, and of two results with equal scores the one
\* inserted earlier comes first, on both backends.
C27_SearchOrder ==
    (lastOp.op = "query" /\ lastOp.ready /\ ~lastOp.raised) =>
        LET r == lastOp.result IN
        /\ Len(r) = Min(lastOp.k, Len(lastOp.index.texts))
        /\ \A x, y \in 1..Len(r) :
              x < y => /\ r[x].score >= r[y].score
                       /\ r[x].score = r[y].score => r[x].row < r[y].row

\* C28: the value similarity_to_nearest returns is between 0 and 1 (0 and
\* Scale hundredths), and 0 when the Retriever is not ready.
C28_SimilarityRange ==
    (lastOp.op = "similarity_to_nearest" /\ ~lastOp.raised) =>
        /\ lastOp.sim >= 0 /\ lastOp.sim <= Scale
        /\ ~lastOp.ready => lastOp.sim = 0

\* --------------------- specification: the commands and the stored state
outsideState ==
    <<cfgVars, guardVars, reqVars, flowVars, speakVars, indexVars, persistVars, ingestVars,
      llmVars, loopVars, sumVars, deltaVars, retrVars, lateVars>>

\* get_active_persona_map(): {k: int(v) for k, v in data.items()}
get_active_persona_map == state_file

\* set_active_persona(channel_id, user_id): the map is read, the entry of
\* str(channel_id) is set, the map is written back
set_active_persona_fresh(c, u) == [k \in Keys |-> IF k = Str(c) THEN u ELSE 0]
set_active_persona(c, u) == [get_active_persona_map EXCEPT ![Str(c)] = u]

\* pers.read_json(pers.persona_path(uid)) is truthy
ProfileFound(u) == u \in profiles

Cmd(op, c, u) ==
    [op |-> op, chan |-> c, user |-> u, before |-> state_file, found |-> ProfileFound(u),
     uid |-> IF c = NoChan THEN 0 ELSE get_active_persona_map[Str(c)]]

\* /persona switch @user, lines 246-259
persona_switch ==
    \E c \in Channels, u \in Users :
        /\ state_file' = IF ProfileFound(u) THEN set_active_persona(c, u) ELSE state_file
        /\ lastCmd' = Cmd("switch", c, u)
        /\ UNCHANGED <<profiles, outsideState>>

\* /persona create @user (line 77) and its _finalize (line 198), and
\* /persona update @user (line 516): the persona file is written
WriteProfile ==
    \E op \in {"create", "finalize", "update"}, c \in Channels, u \in Users :
        /\ profiles' = profiles \cup {u}
        /\ lastCmd' = Cmd(op, c, u)
        /\ UNCHANGED <<state_file, outsideState>>

\* /persona erase @user, lines 429-446: the persona file and the index
\* files are deleted
persona_erase ==
    \E c \in Channels, u \in Users :
        /\ profiles' = profiles \ {u}
        /\ lastCmd' = Cmd("erase", c, u)
        /\ UNCHANGED <<state_file, outsideState>>

\* /persona speak and a mention look the channel's entry up (lines 264-265,
\* mention_speak.py 83-84); list, load and summarize read persona files or
\* nothing of the stored state
ReadOnly ==
    \E op \in {"speak", "mention", "list", "load", "summarize"}, c \in Channels,
       u \in Users :
        /\ lastCmd' = Cmd(op, c, u)
        /\ UNCHANGED <<state_file, profiles, outsideState>>

InitState ==
    /\ CfgDefault /\ InitGuard /\ InitReqs({"guard"})
    /\ SpeakUnused /\ IndexUnused /\ PersistUnused /\ IngestUnused /\ LlmUnused /\ LoopUnused
    /\ SumUnused /\ DeltaUnused /\ RetrUnused /\ LateUnused
    /\ StateNew

NextState ==
    \/ persona_switch
    \/ WriteProfile
    \/ persona_erase
    \/ ReadOnly

SpecState == InitState /\ [][NextState]_vars

\* C29: a command other than switch leaves the channel-to-persona map as
\* it was; a switch leaves the entries of the other channels as they were,
\* and sets the entry of its channel to the target exactly when the
\* target's persona file exists.
C29_OnlySwitchBinds ==
    /\ lastCmd.op \notin {"none", "switch"} => state_file = lastCmd.before
    /\ lastCmd.op = "switch" =>
          /\ \A k \in Keys : k # Str(lastCmd.chan) => state_file[k] = lastCmd.before[k]
          /\ state_file[Str(lastCmd.chan)] =
                IF lastCmd.found THEN lastCmd.user ELSE lastCmd.before[Str(lastCmd.chan)]

\* a switch in channel 1 to persona 2 while channel 2 is bound to persona 1
C29_Witness ==
    /\ lastCmd.op = "switch" /\ lastCmd.chan = 1 /\ lastCmd.user = 2 /\ lastCmd.found
    /\ lastCmd.before[Str(2)] = 1
    /\ state_file[Str(1)] = 2 /\ state_file[Str(2)] = 1

\* the command went on to a generation call: persona_speak returns when the
\* channel has no entry or the entry's persona file is missing or empty
\* (persona.py 264-270); on_message returns only when the channel has no
\* entry and reads the file with "or {}" (mention_speak.py 83-88)
IssuesGeneration(cmd) ==
    \/ cmd.op = "speak" /\ cmd.uid # 0 /\ ProfileFound(cmd.uid)
    \/ cmd.op = "mention" /\ cmd.uid # 0

\* C37: every channel's entry in the active-persona map names a persona
\* whose profile exists, and a speak or mention command that went on to a
\* generation call did so for a persona whose profile exists.
C37_BindingsLive ==
    /\ \A k \in Keys : state_file[k] # 0 => ProfileFound(state_file[k])
    /\ IssuesGeneration(lastCmd) => ProfileFound(lastCmd.uid)

\* ------------------------------------------------ mention sessions
\* MentionSpeakCog.on_message, one task per mention; a turn is recorded with
\* its role and the request whose message or reply it holds.
MaxTurns == 3
Turn(role, r) == [role |-> role, req |-> r]

outsideSess == <<earlierVars, piiVars, eraseVars, capVars>>

\* deque(maxlen=n).append(x) for n > 0
deque_append_unbounded(d, x, maxlen) == d \o <<x>>
deque_append(d, x, maxlen) ==
    IF Len(d) >= maxlen THEN Tail(d) \o <<x>> ELSE d \o <<x>>

\* sess.append(turn) on self._get_session(channel_id)
sess_append(c, turn) ==
    /\ sessions' = [sessions EXCEPT ![c] = deque_append(@, turn, session_max_turns)]
    /\ lastTurn' = [chan |-> c, turn |-> turn, before |-> sessions]

\* context_lines[-(cfg.session_max_turns - 1):]; a slice from -0 is the whole list
context_lines(sess) ==
    IF session_max_turns - 1 = 0 THEN sess ELSE LastK(sess, session_max_turns - 1)

\* the guard of the generation, entered after the window is rendered
MentionAdmitted(r) ==
    /\ Cardinality({q \in Reqs : mpc[q] = "gen"}) < Max(1, speak_global_concurrency)
    /\ speak_channel_exclusive =>
          \A q \in Reqs : mpc[q] = "gen" => mchan[q] # mchan[r]

\* a mention in a channel without an active persona is answered and dropped
MNoPersona ==
    /\ \E r \in Reqs :
          /\ mpc[r] = "idle"
          /\ mpc' = [mpc EXCEPT ![r] = "done"]
    /\ UNCHANGED <<session_max_turns, sessions, mchan, window, startOrder, lastTurn>>
    /\ UNCHANGED outsideSess

\* the persona lookup up to the await of trigger_typing
MStart ==
    /\ \E r \in Reqs, c \in Channels :
          /\ mpc[r] = "idle"
          /\ mpc' = [mpc EXCEPT ![r] = "typing"]
          /\ mchan' = [mchan EXCEPT ![r] = c]
          /\ startOrder' = Append(startOrder, r)
    /\ UNCHANGED <<session_max_turns, sessions, window, lastTurn>>
    /\ UNCHANGED outsideSess

\* the user turn is appended; with a ready retriever the task awaits the
\* query thread, without one it goes on to render the window at once
MUserTurn ==
    /\ \E r \in Reqs, ready \in BOOLEAN :
          /\ mpc[r] = "typing"
          /\ sess_append(mchan[r], Turn("user", r))
          /\ IF ready
             THEN /\ mpc' = [mpc EXCEPT ![r] = "retrieving"]
                  /\ UNCHANGED window
             ELSE /\ mpc' = [mpc EXCEPT ![r] = "waiting"]
                  /\ window' = [window EXCEPT ![r] = context_lines(sessions'[mchan[r]])]
    /\ UNCHANGED <<session_max_turns, mchan, startOrder>>
    /\ UNCHANGED outsideSess

\* after the query thread: the window is rendered from the session as it is now
MRender ==
    /\ \E r \in Reqs :
          /\ mpc[r] = "retrieving"
          /\ window' = [window EXCEPT ![r] = context_lines(sessions[mchan[r]])]
          /\ mpc' = [mpc EXCEPT ![r] = "waiting"]
    /\ UNCHANGED <<session_max_turns, sessions, mchan, startOrder, lastTurn>>
    /\ UNCHANGED outsideSess

\* async with SpeakGuard(channel.id): the completion runs in a thread
MEnter ==
    /\ \E r \in Reqs :
          /\ mpc[r] = "waiting"
          /\ MentionAdmitted(r)
          /\ mpc' = [mpc EXCEPT ![r] = "gen"]
    /\ UNCHANGED <<session_max_turns, sessions, mchan, window, startOrder, lastTurn>>
    /\ UNCHANGED outsideSess

\* the completion returned: the guard is left and the assistant turn appended
MReply ==
    /\ \E r \in Reqs :
          /\ mpc[r] = "gen"
          /\ sess_append(mchan[r], Turn("assistant", r))
          /\ mpc' = [mpc EXCEPT ![r] = "done"]
    /\ UNCHANGED <<session_max_turns, mchan, window, startOrder>>
    /\ UNCHANGED outsideSess

InitSess ==
    /\ CfgDefault /\ InitGuard /\ InitReqs({"guard"})
    /\ SpeakUnused /\ IndexUnused /\ EarlierUnused
    /\ \E n \in 1..MaxTurns : SessNew(n)
    /\ PiiUnused /\ EraseUnused /\ CapUnused

NextSess ==
    \/ MNoPersona
    \/ MStart
    \/ MUserTurn
    \/ MRender
    \/ MEnter
    \/ MReply

SpecSession == InitSess /\ [][NextSess]_vars

\* C31: a session never holds more than session_max_turns turns; an append
\* to a full session drops the oldest turn and keeps the others in order,
\* an append to a session that is not full keeps all of them; the sessions
\* of the other channels are as they were before the append.
C31_SessionBounded ==
    /\ \A c \in Channels : Len(sessions[c]) <= session_max_turns
    /\ lastTurn.chan # NoChan =>
          LET old == lastTurn.before[lastTurn.chan]
              new == sessions[lastTurn.chan]
          IN  /\ new[Len(new)] = lastTurn.turn
              /\ IF Len(old) = session_max_turns
                 THEN /\ Len(new) = Len(old)
                      /\ \A i \in 1..(Len(old) - 1) : new[i] = old[i + 1]
                 ELSE /\ Len(new) = Len(old) + 1
                      /\ \A i \in 1..Len(old) : new[i] = old[i]
              /\ \A c \in Channels : c # lastTurn.chan => sessions[c] = lastTurn.before[c]

\* a turn was appended to a full session of two or more turns while the
\* other channel's session holds turns
C31_Witness ==
    /\ session_max_turns >= 2
    /\ lastTurn.chan # NoChan
    /\ Len(lastTurn.before[lastTurn.chan]) = session_max_turns
    /\ \E c \in Channels : c # lastTurn.chan /\ sessions[c] # <<>>

\* the position of a started request in the order of starts
StartedAt(r) == CHOOSE i \in 1..Len(startOrder) : startOrder[i] = r

\* C36: in every session an assistant turn that has a turn before it
\* stands right after the user turn of its own request and no two adjacent
\* turns have the same role; the window rendered for a request holds no
\* user turn of a request that started after it.
C36_TurnsAlternate ==
    /\ \A c \in Channels : \A i \in 2..Len(sessions[c]) :
          /\ sessions[c][i].role # sessions[c][i - 1].role
          /\ sessions[c][i].role = "assistant" =>
                sessions[c][i - 1] = Turn("user", sessions[c][i].req)
    /\ \A r \in Reqs : \A i \in 1..Len(window[r]) :
          window[r][i].role = "user" => StartedAt(window[r][i].req) <= StartedAt(r)

\* ------------------------------------------------ PII redaction
\* A text is a sequence of words; two of the words match PII_PATTERNS.
MaxMsgs == 2
MaxWords == 2
Ssn == "123-45-6789"       \* matches \b\d{3}-\d{2}-\d{4}\b
TenDigits == "5551234567"  \* matches \b\d{10}\b
Redacted == "[REDACTED]"
Words == {"hi", Ssn, TenDigits}
MsgTexts == UNION {[1..n -> Words] : n \in 0..MaxWords}
Messages == [text : MsgTexts, image : BOOLEAN]
Histories == UNION {[1..n -> Messages] : n \in 1..MaxMsgs}

outsidePii == <<earlierVars, sessVars, eraseVars, capVars>>

\* pat.sub("[REDACTED]", out) for one pattern
PatSub(word, t) == [i \in 1..Len(t) |-> IF t[i] = word THEN Redacted ELSE t[i]]

\* the patterns are applied one after the other
scrub_pii(text) == PatSub(TenDigits, PatSub(Ssn, text))

\* each text is scrubbed, and the txts that are empty are dropped
clean_texts(txts) ==
    SelectSeq([i \in 1..Len(txts) |-> scrub_pii(txts[i])], LAMBDA t : t # <<>>)

\* fetch_texts_and_image_urls_from_channel: the non-empty contents
fetch_texts(h) == SelectSeq([i \in 1..Len(h) |-> h[i].text], LAMBDA t : t # <<>>)

\* fetch_image_items_from_channel: "text" is m.content of the message
\* that carries the image
fetch_image_hints(h) == {h[i].text : i \in {j \in 1..Len(h) : h[j].image}}

\* a caption of vision_describe, refined or not: the model's own words,
\* with or without the words of the context it was given
CaptionsOf(hint) == {<<"cap">>, <<"cap">> \o hint}

Sent(sink, txts) == {[sink |-> sink, text |-> t] : t \in txts}
Range(seq) == {seq[i] : i \in 1..Len(seq)}

\* /persona create with its background _finalize
create_flow ==
    /\ \E include_images \in BOOLEAN :
          LET txts == clean_texts(fetch_texts(history))
              hints == IF include_images THEN fetch_image_hints(history) \ {<<>>} ELSE {}
          IN  \E caps \in SUBSET (UNION {CaptionsOf(x) : x \in hints}) :
                 /\ hints # {} => caps # {}
                 /\ sinks' = sinks \cup Sent("traits", Range(txts))
                                   \cup Sent("hint", hints)
                                   \cup Sent("traits", caps)
                                   \cup Sent("style_prompt", Range(txts))
                                   \cup Sent("profile", caps)
                                   \cup Sent("index", Range(txts))
    /\ flowCmd' = "create"
    /\ UNCHANGED history
    /\ UNCHANGED outsidePii

\* /persona update: the images are described without a hint
update_flow ==
    /\ LET txts == clean_texts(fetch_texts(history))
           caps == IF \E i \in 1..Len(history) : history[i].image THEN {<<"cap">>} ELSE {}
       IN  sinks' = sinks \cup Sent("index", Range(txts))
                         \cup Sent("index", caps)
                         \cup Sent("traits", Range(txts))
                         \cup Sent("traits", caps)
                         \cup Sent("style_prompt", Range(txts))
    /\ flowCmd' = "update"
    /\ UNCHANGED history
    /\ UNCHANGED outsidePii

\* /persona summarize
summarize_flow ==
    /\ \E include_images \in BOOLEAN :
          LET txts == clean_texts(fetch_texts(history))
              hints == IF include_images THEN fetch_image_hints(history) \ {<<>>} ELSE {}
          IN  \E caps \in SUBSET (UNION {CaptionsOf(x) : x \in hints}) :
                 /\ hints # {} => caps # {}
                 /\ sinks' = sinks \cup Sent("hint", hints)
                                   \cup Sent("summarize_prompt", Range(txts))
                                   \cup Sent("summarize_prompt", caps)
    /\ flowCmd' = "summarize"
    /\ UNCHANGED history
    /\ UNCHANGED outsidePii

InitPii ==
    /\ CfgDefault /\ InitGuard /\ InitReqs({"guard"})
    /\ SpeakUnused /\ IndexUnused /\ EarlierUnused
    /\ SessUnused /\ EraseUnused /\ CapUnused
    /\ \E h \in Histories : PiiNew(h)

NextPii ==
    \/ create_flow
    \/ update_flow
    \/ summarize_flow

SpecPii == InitPii /\ [][NextPii]_vars

HasPii(t) == \E i \in 1..Len(t) : t[i] \in {Ssn, TenDigits}

\* C32: no text handed to trait extraction, to a style or summarization
\* prompt, to the profile, to the index or to the captioner as a hint holds
\* a word that scrub_pii replaces.
C32_AlwaysScrubbed ==
    \A s \in sinks : ~HasPii(s.text)

\* ------------------------------------------------ erasure
\* The files of a persona: data/personas/<id>.json and, under INDEX_DIR,
\* <id>.idx with the suffixes SimpleIndex.save and load use.
IndexFiles == {"idx", "idx.npz", "idx.faiss", "idx.texts.json", "idx.meta.json"}

outsideErase == <<earlierVars, sessVars, piiVars, capVars>>

\* SimpleIndex.save(path): the three faiss files, or np.savez_compressed,
\* which appends ".npz" to the path it is given
SavedFiles(bk) ==
    IF bk = "faiss" THEN {"idx.faiss", "idx.meta.json", "idx.texts.json"}
    ELSE {"idx.npz"}

\* the paths persona_erase unlinks: npz = idx, and the three faiss files
ErasedFiles == {"idx", "idx.faiss", "idx.texts.json", "idx.meta.json"}

\* /persona create @user up to create_task(_finalize()): the initial
\* profile is written and the finalize task is started
erase_create ==
    /\ \E u \in Users :
          /\ fin[u] \in {"none", "done"}
          /\ pfile' = [pfile EXCEPT ![u] = TRUE]
          /\ fin' = [fin EXCEPT ![u] = "style"]
          /\ erased' = [erased EXCEPT ![u] = FALSE]
    /\ UNCHANGED ifiles
    /\ UNCHANGED outsideErase

\* _finalize after its captions and style calls: the profile is read
\* ("or {}") and written back
finalize_profile ==
    /\ \E u \in Users :
          /\ fin[u] = "style"
          /\ pfile' = [pfile EXCEPT ![u] = TRUE]
          /\ fin' = [fin EXCEPT ![u] = "index"]
    /\ UNCHANGED <<ifiles, erased>>
    /\ UNCHANGED outsideErase

\* _finalize: retr.add_texts(batch) saves the index
finalize_index ==
    /\ \E u \in Users, bk \in {"faiss", "numpy"} :
          /\ fin[u] = "index"
          /\ ifiles' = [ifiles EXCEPT ![u] = @ \cup SavedFiles(bk)]
          /\ fin' = [fin EXCEPT ![u] = "indexed"]
    /\ UNCHANGED <<pfile, erased>>
    /\ UNCHANGED outsideErase

\* _finalize ends: after its batches, with nothing to index, or by an exception
finalize_end ==
    /\ \E u \in Users :
          /\ fin[u] \in {"style", "index", "indexed"}
          /\ fin' = [fin EXCEPT ![u] = "done"]
    /\ UNCHANGED <<pfile, ifiles, erased>>
    /\ UNCHANGED outsideErase

\* /persona update @user: the index is saved and the profile written
erase_update ==
    /\ \E u \in Users, bk \in {"faiss", "numpy"} :
          /\ ifiles' = [ifiles EXCEPT ![u] = @ \cup SavedFiles(bk)]
          /\ pfile' = [pfile EXCEPT ![u] = TRUE]
          /\ erased' = [erased EXCEPT ![u] = FALSE]
    /\ UNCHANGED fin
    /\ UNCHANGED outsideErase

\* /persona erase @user: delete_persona and the unlinks, without an await
erase_erase ==
    /\ \E u \in Users :
          /\ pfile' = [pfile EXCEPT ![u] = FALSE]
          /\ ifiles' = [ifiles EXCEPT ![u] = @ \ ErasedFiles]
          /\ erased' = [erased EXCEPT ![u] = TRUE]
    /\ UNCHANGED fin
    /\ UNCHANGED outsideErase

InitErase ==
    /\ CfgDefault /\ InitGuard /\ InitReqs({"guard"})
    /\ SpeakUnused /\ IndexUnused /\ EarlierUnused
    /\ SessUnused /\ PiiUnused /\ CapUnused
    /\ EraseNew

NextErase ==
    \/ erase_create
    \/ finalize_profile
    \/ finalize_index
    \/ finalize_end
    \/ erase_update
    \/ erase_erase

SpecErase == InitErase /\ [][NextErase]_vars

\* C38: while a persona is erased and neither create nor update has been
\* invoked for it since, its profile is absent and so is every index file
\* the erase deleted.
C38_ErasureFinal ==
    \A u \in Users : erased[u] => (~pfile[u] /\ ifiles[u] \cap ErasedFiles = {})

\* ------------------------------------------------ caption cache
\* The image part of persona_summarize. The caption the captioner gives for
\* the image at url u is CaptionFor(u).
CaptionFor(u) == <<"caption of", u>>

outsideCap == <<earlierVars, sessVars, piiVars, eraseVars>>

\* capcache.get(url): the stored caption, None without an entry
cache_get(u) == caption_cache[u]

\* capcache.set(url, caption): load, set the entry, save
cache_set(u, c) == [caption_cache EXCEPT ![u] = c]

\* the for loop over to_caption: url is assigned for every item; an item
\* with a cached caption is served from the cache, the others are pending.
\* The loop leaves url at the url of the last item.
cache_scan ==
    /\ cpos = "scan"
    /\ loop_url' = IF to_caption = <<>> THEN NoUrl ELSE to_caption[Len(to_caption)]
    /\ capTask' = [i \in 1..MaxItemsToCaption |->
                     IF i > Len(to_caption) THEN "none"
                     ELSE IF cache_get(to_caption[i]) # <<>> THEN "cached"
                     ELSE "pending"]
    /\ cpos' = "gather"
    /\ UNCHANGED <<caption_cache, to_caption, captioned, summarize_caption_concurrency>>
    /\ UNCHANGED outsideCap

\* _cap(it): async with sem, then the captioner runs in a worker thread
cap_start ==
    /\ cpos = "gather"
    /\ \E i \in 1..Len(to_caption) :
          /\ capTask[i] = "pending"
          /\ Cardinality({j \in 1..Len(to_caption) : capTask[j] = "running"})
                < Max(1, summarize_caption_concurrency)
          /\ capTask' = [capTask EXCEPT ![i] = "running"]
    /\ UNCHANGED <<caption_cache, to_caption, loop_url, captioned,
                   summarize_caption_concurrency, cpos>>
    /\ UNCHANGED outsideCap

\* _cap(it) after the captioner returned: a caption is kept and stored with
\* capcache.set(url, c), where url is the variable of the enclosing
\* function; no caption, or an exception, stores nothing
cap_finish ==
    /\ cpos = "gather"
    /\ \E i \in 1..Len(to_caption), got \in BOOLEAN :
          /\ capTask[i] = "running"
          /\ capTask' = [capTask EXCEPT ![i] = "done"]
          /\ IF got
             THEN /\ captioned' = captioned \cup {to_caption[i]}
                  /\ caption_cache' =
                        IF loop_url # NoUrl
                        THEN cache_set(loop_url, CaptionFor(to_caption[i]))
                        ELSE caption_cache
             ELSE UNCHANGED <<captioned, caption_cache>>
    /\ UNCHANGED <<to_caption, loop_url, summarize_caption_concurrency, cpos>>
    /\ UNCHANGED outsideCap

\* asyncio.gather returns when every _cap has ended
gather_done ==
    /\ cpos = "gather"
    /\ \A i \in 1..Len(to_caption) : capTask[i] \in {"cached", "done"}
    /\ cpos' = "done"
    /\ UNCHANGED <<caption_cache, to_caption, loop_url, capTask, captioned,
                   summarize_caption_concurrency>>
    /\ UNCHANGED outsideCap

\* the items of a run: distinct attachment urls
ItemLists ==
    {s \in UNION {[1..n -> Urls] : n \in 1..MaxItemsToCaption} :
        \A i, j \in 1..Len(s) : i # j => s[i] # s[j]}

\* the cache before the run holds right captions only
StoredCaches == {c \in [Urls -> {<<>>} \cup {CaptionFor(u) : u \in Urls}] :
                    \A u \in Urls : c[u] \in {<<>>, CaptionFor(u)}}

InitCap ==
    /\ CfgDefault /\ InitGuard /\ InitReqs({"guard"})
    /\ SpeakUnused /\ IndexUnused /\ EarlierUnused
    /\ SessUnused /\ PiiUnused /\ EraseUnused
    /\ \E stored \in StoredCaches, items \in ItemLists, conc \in {1, 2} :
          CapNew(stored, items, conc)

NextCap ==
    \/ cache_scan
    \/ cap_start
    \/ cap_finish
    \/ gather_done

SpecCap == InitCap /\ [][NextCap]_vars

\* C39: when the run has captioned its images, every entry of the cache
\* holds the caption of the image at its own url, and every image captioned
\* in the run has an entry under its url.
C39_CacheCorrect ==
    cpos = "done" =>
        /\ \A u \in Urls : caption_cache[u] # <<>> => caption_cache[u] = CaptionFor(u)
        /\ \A u \in captioned : caption_cache[u] # <<>>

\* ------------------------------------------------ claims: /persona speak
PastCheck == sp \in {"deliver", "finished"}
IsRetry(i) == genCalls[i].prompt = genCalls[1].prompt \o <<Rephrase>>
Retries == {i \in 1..Len(genCalls) : \E j \in 1..Len(genCalls[i].prompt) : genCalls[i].prompt[j] = Rephrase}
WebhookUsable == whOut \notin {"unsupported", "nohook"}

\* C5: a speak request that found a persona with stored data ends with a
\* response text delivered to the channel, whatever the embedding and
\* generation backends do (stated for blocking mode with a webhook that
\* either sends or raises, where neither streaming nor a missing webhook
\* is involved).
C5_AlwaysResponds ==
    (persona = "ok" /\ pc[T] = "done" /\ ~speak_stream /\ WebhookUsable)
        => (shown = draft /\ draft # <<>>)

C7_RetryShown ==
    (sp = "finished" /\ Retries # {} /\ draft1 # <<>> /\ whOut = "sent") => shown = draft

\* C34: a streaming speak request that issued no retry, whose message
\* exists and whose stream returned some text, ends with that text as the
\* content of the message.
C34_StreamShowsResult ==
    (/\ sp = "finished" /\ speak_stream /\ Retries = {}
     /\ msg \in {"Webhook", "Followup"} /\ draft1 # <<>>)
        => shown = draft1

\* C8: when send_via_webhook does not produce a message (unsupported channel,
\* no webhook, or the send raised), the response goes out through the
\* interaction followup.
C8_FallbackDelivery ==
    (sp = "finished" /\ whOut \in {"unsupported", "nohook", "raised"})
        => IF speak_stream
           THEN msg = "Followup"
           ELSE \E i \in 1..Len(followups) : followups[i] = draft

====
